---- MODULE Spec2Model ----
(***************************************************************************)
(* The simulation core of TerraGenesis PC: Planet, ResourceManager,        *)
(* TechnologyTree, EventManager and the GameEngine tick that drives them.  *)
(*                                                                         *)
(* Numbers.  The program computes with IEEE doubles; the model computes    *)
(* with fixed-point integers and rounds every product down:                *)
(*   temperature, pressure, oxygen   thousandths (m°C, matm, m%)           *)
(*   habitability                    thousandths of a percent point        *)
(*   credits, energy, science        hundredths                            *)
(*   rates (per second)              hundredths per second                 *)
(*   delta_time, game_time           hundredths of a second                *)
(*   simulation_speed                tenths                                *)
(*   research_progress               thousandths of a percent point        *)
(*   wall clock (time.time())        whole seconds                         *)
(* A Python dict is a function whose DOMAIN is the set of keys present.    *)
(* None is the string "None".                                              *)
(***************************************************************************)
EXTENDS Integers, Sequences, FiniteSets, TLC

VARIABLES
    now,               \* time.time(): the wall clock, in seconds
    current_planet,    \* GameEngine.current_planet: a Planet record, or NoPlanet
    resource_manager,  \* GameEngine.resource_manager: a ResourceManager record
    technology_tree,   \* GameEngine.technology_tree: a TechnologyTree record
    event_manager,     \* GameEngine.event_manager: [last_event_check]
    is_running,        \* GameEngine.is_running
    is_paused,         \* GameEngine.is_paused
    simulation_speed,  \* GameEngine.simulation_speed (tenths)
    game_time,         \* GameEngine.game_time (hundredths of a second)
    last_update_time,  \* GameEngine.last_update_time (wall clock seconds)
    game_stats,        \* GameEngine.game_stats: [buildings_built]
    save_file,         \* the file in SAVES_DIRECTORY that save_game writes and
                       \* load_game reads: its save_data, or NoFile
    last_call,         \* the last operation called: its name, return value,
                       \* whether it raised, and the calls it made
    paused_for         \* the seconds of wall clock that have passed with
                       \* is_paused set since last_update_time was last
                       \* written (instrumentation, not a field of the program)

vars == <<now, current_planet, resource_manager, technology_tree, event_manager,
          is_running, is_paused, simulation_speed, game_time, last_update_time,
          game_stats, save_file, last_call, paused_for>>

None == "None"

-----------------------------------------------------------------------------
(* Fixed-point scales (see the header).                                    *)
MILLI == 10 * 100
CENTI == 10 * 10

Max(a, b) == IF a >= b THEN a ELSE b
Min(a, b) == IF a <= b THEN a ELSE b
Abs(a) == IF a >= 0 THEN a ELSE 0 - a

\* (a * b) \div c, rounded down, without forming the product a * b
MulDiv(a, b, c) == a * (b \div c) + (a * (b % c)) \div c

\* dict.get(key, default)
Get(d, k, default) == IF k \in DOMAIN d THEN d[k] ELSE default

\* d[k] = v on a dict (the key is added when absent)
Put(d, k, v) == [x \in DOMAIN d \cup {k} |-> IF x = k THEN v ELSE d[x]]

\* del d[k]
Del(d, k) == [x \in DOMAIN d \ {k} |-> d[x]]

EmptyDict == [x \in {} |-> 0]

RECURSIVE SumOver(_, _)
\* sum(f[x] for x in S)
SumOver(f, S) ==
    IF S = {} THEN 0
    ELSE LET x == CHOOSE y \in S : TRUE IN f[x] + SumOver(f, S \ {x})

-----------------------------------------------------------------------------
(* config/constants.py *)
INITIAL_CREDITS == 1000
INITIAL_ENERGY == 100
INITIAL_SCIENCE == 0
MIN_TEMPERATURE == -273150
MAX_TEMPERATURE == 1000000
MIN_PRESSURE == 0
MAX_PRESSURE == 10000
MIN_OXYGEN == 0
MAX_OXYGEN == 100000
TARGET_TEMPERATURE == 15000
TARGET_PRESSURE == 1000
TARGET_OXYGEN == 21000
HABITABILITY_TOLERANCE ==
    [temperature |-> 20000, pressure |-> 300, oxygen |-> 5000]

-----------------------------------------------------------------------------
(* Template data.  data/planets.json, data/technologies.json and           *)
(* data/events.json are inputs of the program; these are the templates the *)
(* model runs it on.                                                       *)

\* GameEngine.available_planets
PlanetData ==
    [Arid |-> [initial_temperature |-> -60000, initial_pressure |-> 200,
               initial_oxygen |-> 100],
     Eden |-> [initial_temperature |-> 14000, initial_pressure |-> 900,
               initial_oxygen |-> 20000]]

PlanetNames == DOMAIN PlanetData

\* TechnologyTree.technologies: cost, prerequisites, unlocks of each template
TechnologyData ==
    [basic_energy    |-> [cost |-> [science |-> 100], prerequisites |-> {},
                          unlocks |-> {"solar_panel", "research_lab", "dome"}],
     climate_control |-> [cost |-> [science |-> 200],
                          prerequisites |-> {"basic_energy"},
                          unlocks |-> {"atmosphere_processor", "heater"}],
     geology         |-> [cost |-> [credits |-> 50], prerequisites |-> {},
                          unlocks |-> {"mining_facility", "solar_panel"}],
     open_archives   |-> [cost |-> [science |-> 0], prerequisites |-> {},
                          unlocks |-> {}]]

TechIds == DOMAIN TechnologyData

\* EventManager.event_templates: duration (seconds), effects, requirements.
\* temperature/pressure/oxygen modifiers are in whole units, so that the
\* 0.001 of apply_effects is one thousandth; building_damage_chance is in
\* hundredths (30 is 0.30); it and the probability of every template are
\* strictly between 0 and 1, so that every draw can go either way.
EventData ==
    [resource_discovery |-> [duration |-> 0,
                             effects |-> [credits_bonus |-> 50 * CENTI],
                             requirements |-> EmptyDict],
     meteor_shower      |-> [duration |-> 0,
                             effects |-> [building_damage_chance |-> 30],
                             requirements |-> [min_buildings |-> 1]],
     dust_storm         |-> [duration |-> 120,
                             effects |-> [temperature_modifier |-> -10,
                                          pressure_modifier |-> 2,
                                          oxygen_modifier |-> -1],
                             requirements |-> [min_pressure |-> 500]],
     power_surge        |-> [duration |-> 90,
                             effects |-> [energy_cost |-> 150 * CENTI,
                                          temperature_modifier |-> 5],
                             requirements |-> EmptyDict]]

EventIds == DOMAIN EventData

-----------------------------------------------------------------------------
(* core/planet.py *)

NoPlanet == [name |-> None]

\* the history block with the newest sample of a full series dropped
Recorded_newest_out(history, first, sample) ==
    [key \in DOMAIN history |->
        Append(IF Len(history[first]) >= 100
               THEN SubSeq(history[key], 1, Len(history[key]) - 1)
               ELSE history[key],
               sample[key])]

\* The "Ajouter à l'historique (limiter à 100 entrées)" block of Planet.update
\* and of ResourceManager.update: when the series the code looks at (first)
\* holds 100 samples or more, pop(0) on every series; then every series gets
\* its sample appended.
Recorded(history, first, sample) ==
    [key \in DOMAIN history |->
        Append(IF Len(history[first]) >= 100 THEN Tail(history[key])
               ELSE history[key],
               sample[key])]

\* calculate_habitability taking the signed differences instead of abs()
HabitabilityN_signed(temperature, pressure, oxygen) ==
    LET temp_diff == temperature - TARGET_TEMPERATURE
        pressure_diff == pressure - TARGET_PRESSURE
        oxygen_diff == oxygen - TARGET_OXYGEN
        \* max(0, 1 - diff / tolerance), times 60000
        temp_score ==
            Max(0, 60000 - temp_diff * (60000 \div HABITABILITY_TOLERANCE.temperature))
        pressure_score ==
            Max(0, 60000 - pressure_diff * (60000 \div HABITABILITY_TOLERANCE.pressure))
        oxygen_score ==
            Max(0, 60000 - oxygen_diff * (60000 \div HABITABILITY_TOLERANCE.oxygen))
        habitability == temp_score * 40 + pressure_score * 30 + oxygen_score * 30
    IN  Min(100 * 60000, Max(0, habitability))

\* Planet.calculate_habitability, as the exact numerator over 60000:
\* 60000 is the least common multiple of the three tolerances' denominators.
HabitabilityN(temperature, pressure, oxygen) ==
    LET temp_diff == Abs(temperature - TARGET_TEMPERATURE)
        pressure_diff == Abs(pressure - TARGET_PRESSURE)
        oxygen_diff == Abs(oxygen - TARGET_OXYGEN)
        \* max(0, 1 - diff / tolerance), times 60000
        temp_score ==
            Max(0, 60000 - temp_diff * (60000 \div HABITABILITY_TOLERANCE.temperature))
        pressure_score ==
            Max(0, 60000 - pressure_diff * (60000 \div HABITABILITY_TOLERANCE.pressure))
        oxygen_score ==
            Max(0, 60000 - oxygen_diff * (60000 \div HABITABILITY_TOLERANCE.oxygen))
        habitability == temp_score * 40 + pressure_score * 30 + oxygen_score * 30
    IN  Min(100 * 60000, Max(0, habitability))

\* Planet.calculate_habitability, in thousandths of a percent point
calculate_habitability(P) ==
    HabitabilityN(P.temperature, P.pressure, P.oxygen) \div (60000 \div MILLI)

\* Planet.__init__
NewPlanet(name) ==
    LET planet_data == PlanetData[name] IN
    [name |-> name,
     temperature |-> planet_data.initial_temperature,
     pressure |-> planet_data.initial_pressure,
     oxygen |-> planet_data.initial_oxygen,
     base_temperature |-> planet_data.initial_temperature,
     base_pressure |-> planet_data.initial_pressure,
     base_oxygen |-> planet_data.initial_oxygen,
     temperature_modifier |-> 0,
     pressure_modifier |-> 0,
     oxygen_modifier |-> 0,
     buildings |-> EmptyDict,
     history |-> [temperature |-> <<planet_data.initial_temperature>>,
                  pressure |-> <<planet_data.initial_pressure>>,
                  oxygen |-> <<planet_data.initial_oxygen>>,
                  habitability |->
                      <<calculate_habitability(
                            [temperature |-> planet_data.initial_temperature,
                             pressure |-> planet_data.initial_pressure,
                             oxygen |-> planet_data.initial_oxygen])>>],
     active_events |-> <<>>]

\* the building_effects table of Planet._update_modifiers
PlanetBuildingEffects ==
    [heater |-> [temperature |-> 5000],
     cooler |-> [temperature |-> -5000],
     atmosphere_processor |-> [pressure |-> 100],
     oxygen_generator |-> [oxygen |-> 2000],
     greenhouse |-> [temperature |-> 2000, oxygen |-> 1000],
     solar_panel |-> EmptyDict,
     research_lab |-> EmptyDict]

\* _update_modifiers writing the buildings' effects into the base values too
update_modifiers_onto_base(P) ==
    LET known == DOMAIN P.buildings \cap DOMAIN PlanetBuildingEffects
        term(key) ==
            [b \in known |-> Get(PlanetBuildingEffects[b], key, 0) * P.buildings[b]]
    IN  [P EXCEPT !.temperature_modifier = SumOver(term("temperature"), known),
                  !.pressure_modifier = SumOver(term("pressure"), known),
                  !.oxygen_modifier = SumOver(term("oxygen"), known),
                  !.base_temperature = @ + SumOver(term("temperature"), known),
                  !.base_pressure = @ + SumOver(term("pressure"), known),
                  !.base_oxygen = @ + SumOver(term("oxygen"), known)]

\* Planet._update_modifiers
update_modifiers(P) ==
    LET known == DOMAIN P.buildings \cap DOMAIN PlanetBuildingEffects
        term(key) ==
            [b \in known |-> Get(PlanetBuildingEffects[b], key, 0) * P.buildings[b]]
    IN  [P EXCEPT !.temperature_modifier = SumOver(term("temperature"), known),
                  !.pressure_modifier = SumOver(term("pressure"), known),
                  !.oxygen_modifier = SumOver(term("oxygen"), known)]

\* Planet.add_building
add_building(P, building_type, count) ==
    LET had == Get(P.buildings, building_type, 0) IN
    update_modifiers([P EXCEPT !.buildings = Put(@, building_type, had + count)])

\* Planet.remove_building
remove_building(P, building_type, count) ==
    LET left == Max(0, Get(P.buildings, building_type, 0) - count)
        buildings ==
            IF building_type \in DOMAIN P.buildings
            THEN IF left = 0 THEN Del(P.buildings, building_type)
                 ELSE Put(P.buildings, building_type, left)
            ELSE P.buildings
    IN  update_modifiers([P EXCEPT !.buildings = buildings])

-----------------------------------------------------------------------------
(* core/resources.py *)

\* ResourceManager.__init__
NewResourceManager ==
    [credits |-> INITIAL_CREDITS * CENTI,
     energy |-> INITIAL_ENERGY * CENTI,
     science |-> INITIAL_SCIENCE * CENTI,
     credits_per_second |-> 0,
     energy_per_second |-> 0,
     science_per_second |-> 0,
     energy_consumption |-> 0,
     max_energy |-> 1000 * CENTI,
     max_science |-> 10000 * CENTI,
     history |-> [credits |-> <<INITIAL_CREDITS * CENTI>>,
                  energy |-> <<INITIAL_ENERGY * CENTI>>,
                  science |-> <<INITIAL_SCIENCE * CENTI>>]]

\* the clamping block of ResourceManager.update and add_resources
ClampResources(R) ==
    [R EXCEPT !.credits = Max(0, R.credits),
              !.energy = Max(0, Min(R.max_energy, R.energy)),
              !.science = Max(0, Min(R.max_science, R.science))]

\* the samples ResourceManager.update appends to its history
LedgerSampled(R) ==
    [R EXCEPT !.history = Recorded(@, "credits", [credits |-> R.credits,
                                                  energy |-> R.energy,
                                                  science |-> R.science])]

\* ResourceManager.update
rm_update(R, delta_time) ==
    LET credits_change == MulDiv(R.credits_per_second, delta_time, CENTI)
        energy_change ==
            MulDiv(R.energy_per_second - R.energy_consumption, delta_time, CENTI)
        science_change == MulDiv(R.science_per_second, delta_time, CENTI)
    IN  LedgerSampled(ClampResources([R EXCEPT !.credits = @ + credits_change,
                                               !.energy = @ + energy_change,
                                               !.science = @ + science_change]))

\* ResourceManager.can_afford
can_afford(R, cost) ==
    /\ R.credits >= Get(cost, "credits", 0)
    /\ R.energy >= Get(cost, "energy", 0)
    /\ R.science >= Get(cost, "science", 0)

\* spend_resources checking and deducting one resource after the other
\* instead of checking can_afford first
spend_resources_stepwise(R, cost) ==
    IF R.credits < Get(cost, "credits", 0)
    THEN [rm |-> R, ret |-> FALSE]
    ELSE IF R.energy < Get(cost, "energy", 0)
    THEN [rm |-> [R EXCEPT !.credits = @ - Get(cost, "credits", 0)], ret |-> FALSE]
    ELSE IF R.science < Get(cost, "science", 0)
    THEN [rm |-> [R EXCEPT !.credits = @ - Get(cost, "credits", 0),
                           !.energy = @ - Get(cost, "energy", 0)],
          ret |-> FALSE]
    ELSE [rm |-> [R EXCEPT !.credits = @ - Get(cost, "credits", 0),
                           !.energy = @ - Get(cost, "energy", 0),
                           !.science = @ - Get(cost, "science", 0)],
          ret |-> TRUE]

\* ResourceManager.spend_resources: the ledger after the call and what it returns
spend_resources(R, cost) ==
    IF ~can_afford(R, cost)
    THEN [rm |-> R, ret |-> FALSE]
    ELSE [rm |-> [R EXCEPT !.credits = @ - Get(cost, "credits", 0),
                           !.energy = @ - Get(cost, "energy", 0),
                           !.science = @ - Get(cost, "science", 0)],
          ret |-> TRUE]

\* ResourceManager.add_resources
add_resources(R, resources) ==
    ClampResources([R EXCEPT !.credits = @ + Get(resources, "credits", 0),
                             !.energy = @ + Get(resources, "energy", 0),
                             !.science = @ + Get(resources, "science", 0)])

\* the building_effects table of ResourceManager.calculate_production
\* (hundredths per second)
ProductionEffects ==
    [solar_panel |-> [energy_production |-> 500, credits_production |-> 50],
     research_lab |-> [science_production |-> 200, energy_consumption |-> 300],
     mining_facility |-> [credits_production |-> 300, energy_consumption |-> 200],
     heater |-> [energy_consumption |-> 400],
     cooler |-> [energy_consumption |-> 400],
     atmosphere_processor |-> [energy_consumption |-> 600,
                               credits_production |-> 100],
     oxygen_generator |-> [energy_consumption |-> 500],
     greenhouse |-> [energy_consumption |-> 200, science_production |-> 100]]

\* calculate_production without the reset of the four rates
calculate_production_accumulating(R, P, buildings) ==
    LET known == DOMAIN buildings \cap DOMAIN ProductionEffects
        term(key) ==
            [b \in known |-> Get(ProductionEffects[b], key, 0) * buildings[b]]
        credits == R.credits_per_second + 1 * CENTI + SumOver(term("credits_production"), known)
        energy == R.energy_per_second + SumOver(term("energy_production"), known)
        science == R.science_per_second + SumOver(term("science_production"), known)
        consumption == R.energy_consumption + SumOver(term("energy_consumption"), known)
        habitability == calculate_habitability(P)
        \* rate * (1.0 + habitability / 100.0 * 0.5), and * 0.3 for science
        credits_bonus == (credits * habitability) \div (2 * 100 * MILLI)
        science_bonus == (science * 3 * habitability) \div (10 * 100 * MILLI)
    IN  [R EXCEPT !.credits_per_second = credits + credits_bonus,
                  !.energy_per_second = energy,
                  !.science_per_second = science + science_bonus,
                  !.energy_consumption = consumption]

\* ResourceManager.calculate_production
calculate_production(R, P, buildings) ==
    LET known == DOMAIN buildings \cap DOMAIN ProductionEffects
        term(key) ==
            [b \in known |-> Get(ProductionEffects[b], key, 0) * buildings[b]]
        credits == 1 * CENTI + SumOver(term("credits_production"), known)
        energy == SumOver(term("energy_production"), known)
        science == SumOver(term("science_production"), known)
        consumption == SumOver(term("energy_consumption"), known)
        habitability == calculate_habitability(P)
        \* rate * (1.0 + habitability / 100.0 * 0.5), and * 0.3 for science
        credits_bonus == (credits * habitability) \div (2 * 100 * MILLI)
        science_bonus == (science * 3 * habitability) \div (10 * 100 * MILLI)
    IN  [R EXCEPT !.credits_per_second = credits + credits_bonus,
                  !.energy_per_second = energy,
                  !.science_per_second = science + science_bonus,
                  !.energy_consumption = consumption]

-----------------------------------------------------------------------------
(* core/technology.py *)

\* Technology.__init__ and TechnologyTree.__init__ (with _update_availability).
\* researched_for sums the delta_time of the update_research calls made on a
\* technology since start_research last started it (instrumentation, not a
\* field of the program).
NewTechnologyTree ==
    [technologies |->
        [t \in TechIds |->
            [is_researched |-> FALSE,
             is_available |-> TechnologyData[t].prerequisites = {},
             research_progress |-> 0,
             researched_for |-> 0]],
     researched_technologies |-> {},
     current_research |-> None,
     research_progress |-> 0]

\* TechnologyTree._update_availability
update_availability(T) ==
    [T EXCEPT !.technologies =
        [t \in TechIds |->
            IF ~T.technologies[t].is_researched
            THEN [T.technologies[t] EXCEPT !.is_available =
                    TechnologyData[t].prerequisites \subseteq T.researched_technologies]
            ELSE T.technologies[t]]]

\* start_research without the "disponible" half of its check
start_research_unavailable(T, tech_id) ==
    IF tech_id \notin TechIds
    THEN [tree |-> T, ret |-> FALSE, stopped |-> None]
    ELSE IF T.technologies[tech_id].is_researched
    THEN [tree |-> T, ret |-> FALSE, stopped |-> None]
    ELSE LET stopped ==
                 IF T.current_research # None
                 THEN [T EXCEPT !.technologies[T.current_research].research_progress = 0]
                 ELSE T
         IN  [tree |-> [stopped EXCEPT !.current_research = tech_id,
                                       !.research_progress = 0,
                                       !.technologies[tech_id].research_progress = 0,
                                       !.technologies[tech_id].researched_for = 0],
              ret |-> TRUE,
              stopped |-> T.current_research]

\* start_research without the "pas déjà recherchée" half of its check
start_research_again(T, tech_id) ==
    IF tech_id \notin TechIds
    THEN [tree |-> T, ret |-> FALSE, stopped |-> None]
    ELSE IF ~T.technologies[tech_id].is_available
    THEN [tree |-> T, ret |-> FALSE, stopped |-> None]
    ELSE LET stopped ==
                 IF T.current_research # None
                 THEN [T EXCEPT !.technologies[T.current_research].research_progress = 0]
                 ELSE T
         IN  [tree |-> [stopped EXCEPT !.current_research = tech_id,
                                       !.research_progress = 0,
                                       !.technologies[tech_id].research_progress = 0,
                                       !.technologies[tech_id].researched_for = 0],
              ret |-> TRUE,
              stopped |-> T.current_research]

\* start_research without its "Arrêter la recherche actuelle" block
start_research_carry(T, tech_id) ==
    IF tech_id \notin TechIds
    THEN [tree |-> T, ret |-> FALSE, stopped |-> None]
    ELSE IF ~T.technologies[tech_id].is_available \/ T.technologies[tech_id].is_researched
    THEN [tree |-> T, ret |-> FALSE, stopped |-> None]
    ELSE [tree |-> [T EXCEPT !.current_research = tech_id,
                             !.research_progress = 0,
                             !.technologies[tech_id].research_progress = 0,
                             !.technologies[tech_id].researched_for = 0],
          ret |-> TRUE,
          stopped |-> T.current_research]

\* TechnologyTree.start_research: the tree after the call, what it returns,
\* and the technology whose research it stopped ("Arrêter la recherche
\* actuelle si elle existe"), None when it stopped none
start_research(T, tech_id) ==
    IF tech_id \notin TechIds
    THEN [tree |-> T, ret |-> FALSE, stopped |-> None]
    ELSE IF ~T.technologies[tech_id].is_available \/ T.technologies[tech_id].is_researched
    THEN [tree |-> T, ret |-> FALSE, stopped |-> None]
    ELSE LET stopped ==
                 IF T.current_research # None
                 THEN [T EXCEPT !.technologies[T.current_research].research_progress = 0]
                 ELSE T
         IN  [tree |-> [stopped EXCEPT !.current_research = tech_id,
                                       !.research_progress = 0,
                                       !.technologies[tech_id].research_progress = 0,
                                       !.technologies[tech_id].researched_for = 0],
              ret |-> TRUE,
              stopped |-> T.current_research]

\* complete_research without its "Mettre à jour la disponibilité" call
complete_research_stale(T, tech_id) ==
    IF tech_id \notin TechIds THEN T
    ELSE LET marked ==
                 [T EXCEPT !.technologies[tech_id].is_researched = TRUE,
                           !.technologies[tech_id].research_progress = 100 * MILLI,
                           !.researched_technologies = @ \cup {tech_id}]
         IN  IF marked.current_research = tech_id
             THEN [marked EXCEPT !.current_research = None,
                                 !.research_progress = 0]
             ELSE marked

\* complete_research leaving the tree's research_progress as it was
complete_research_keep_progress(T, tech_id) ==
    IF tech_id \notin TechIds THEN T
    ELSE LET marked ==
                 [T EXCEPT !.technologies[tech_id].is_researched = TRUE,
                           !.technologies[tech_id].research_progress = 100 * MILLI,
                           !.researched_technologies = @ \cup {tech_id}]
             cleared ==
                 IF marked.current_research = tech_id
                 THEN [marked EXCEPT !.current_research = None]
                 ELSE marked
         IN  update_availability(cleared)

\* TechnologyTree.complete_research
complete_research(T, tech_id) ==
    IF tech_id \notin TechIds THEN T
    ELSE LET marked ==
                 [T EXCEPT !.technologies[tech_id].is_researched = TRUE,
                           !.technologies[tech_id].research_progress = 100 * MILLI,
                           !.researched_technologies = @ \cup {tech_id}]
             cleared ==
                 IF marked.current_research = tech_id
                 THEN [marked EXCEPT !.current_research = None,
                                     !.research_progress = 0]
                 ELSE marked
         IN  update_availability(cleared)

\* update_research completing a technology only when its progress exceeds 100
update_research_strict(T, science_points, delta_time) ==
    IF T.current_research = None
    THEN [tree |-> T, raised |-> FALSE]
    ELSE LET tech_id == T.current_research
             science_cost == Get(TechnologyData[tech_id].cost, "science", 100)
         IN  IF science_cost = 0
             THEN [tree |-> T, raised |-> TRUE]
             ELSE LET progress_increase ==
                          (science_points * delta_time * 10) \div science_cost
                      progress ==
                          T.technologies[tech_id].research_progress + progress_increase
                      advanced ==
                          [T EXCEPT !.technologies[tech_id].research_progress = progress,
                                    !.technologies[tech_id].researched_for =
                                        @ + delta_time,
                                    !.research_progress = progress]
                  IN  [tree |-> IF progress > 100 * MILLI
                                THEN complete_research(advanced, tech_id)
                                ELSE advanced,
                       raised |-> FALSE]

\* TechnologyTree.update_research: the tree after the call, and whether the
\* division raised ZeroDivisionError
update_research(T, science_points, delta_time) ==
    IF T.current_research = None
    THEN [tree |-> T, raised |-> FALSE]
    ELSE LET tech_id == T.current_research
             science_cost == Get(TechnologyData[tech_id].cost, "science", 100)
         IN  IF science_cost = 0
             THEN [tree |-> T, raised |-> TRUE]
             ELSE LET \* science_points / science_cost * 100 * delta_time
                      progress_increase ==
                          (science_points * delta_time * 10) \div science_cost
                      progress ==
                          T.technologies[tech_id].research_progress + progress_increase
                      advanced ==
                          [T EXCEPT !.technologies[tech_id].research_progress = progress,
                                    !.technologies[tech_id].researched_for =
                                        @ + delta_time,
                                    !.research_progress = progress]
                  IN  [tree |-> IF progress >= 100 * MILLI
                                THEN complete_research(advanced, tech_id)
                                ELSE advanced,
                       raised |-> FALSE]

\* TechnologyTree.get_unlocked_buildings
get_unlocked_buildings(T) ==
    UNION {TechnologyData[t].unlocks :
             t \in {u \in TechIds : T.technologies[u].is_researched}}

\* TechnologyTree.is_building_unlocked
is_building_unlocked(T, building_type) ==
    building_type \in get_unlocked_buildings(T)

-----------------------------------------------------------------------------
(* core/events.py *)

\* ActiveEvent.__init__ at wall clock time t.  one_shots counts the runs of
\* the one-shot block of apply_effects (instrumentation, not a field of the
\* program).
NewActiveEvent(event_id, t) ==
    [id |-> event_id,
     start_time |-> t,
     duration |-> EventData[event_id].duration,
     effects_applied |-> FALSE,
     one_shots |-> 0]

\* is_expired with a timed event expiring only after its duration has passed
is_expired_late(ae, t) ==
    IF ae.duration = 0 THEN ae.effects_applied
    ELSE t - ae.start_time > ae.duration

\* ActiveEvent.is_expired at wall clock time t
is_expired(ae, t) ==
    IF ae.duration = 0 THEN ae.effects_applied
    ELSE t - ae.start_time >= ae.duration

\* ActiveEvent.get_remaining_time at wall clock time t
get_remaining_time(ae, t) ==
    IF ae.duration = 0 THEN 0
    ELSE Max(0, ae.duration - (t - ae.start_time))

\* the effect keys whose handling calls a method of resource_manager
ResourceEffectKeys ==
    {"credits_bonus", "credits_cost", "energy_bonus", "energy_cost", "science_bonus"}

RECURSIVE RemoveOneOfEach(_, _)
\* for building_type in ...: planet.remove_building(building_type, 1)
RemoveOneOfEach(P, types) ==
    IF types = {} THEN P
    ELSE LET b == CHOOSE x \in types : TRUE
         IN  RemoveOneOfEach(remove_building(P, b, 1), types \ {b})

\* The resource effects of the "Effets instantanés" block of
\* ActiveEvent.apply_effects on a real ResourceManager, one operator per "if"
CreditsBonus(R, effects) ==
    IF "credits_bonus" \in DOMAIN effects
    THEN add_resources(R, [credits |-> effects.credits_bonus]) ELSE R

CreditsCost(R, effects) ==
    IF "credits_cost" \in DOMAIN effects
    THEN spend_resources(R, [credits |-> effects.credits_cost]).rm ELSE R

EnergyBonus(R, effects) ==
    IF "energy_bonus" \in DOMAIN effects
    THEN add_resources(R, [energy |-> effects.energy_bonus]) ELSE R

EnergyCost(R, effects) ==
    IF "energy_cost" \in DOMAIN effects
    THEN spend_resources(R, [energy |-> effects.energy_cost]).rm ELSE R

ScienceBonus(R, effects) ==
    IF "science_bonus" \in DOMAIN effects
    THEN add_resources(R, [science |-> effects.science_bonus]) ELSE R

\* the five resource effects, in the order of the code
OneShotResources(R, effects) ==
    ScienceBonus(EnergyCost(EnergyBonus(CreditsCost(CreditsBonus(R, effects),
                                                    effects), effects), effects), effects)

\* Whether apply_effects raises: its second argument is not a ResourceManager
\* (Planet._update_events passes delta_time, a float), the one-shot block
\* runs, and an effect of the event calls a method of it (AttributeError).
Raises(ae, is_manager) ==
    /\ ~ae.effects_applied
    /\ ~is_manager
    /\ DOMAIN EventData[ae.id].effects \cap ResourceEffectKeys # {}

\* whether apply_effects rolls building damage
Rolls(ae, is_manager) ==
    /\ ~ae.effects_applied
    /\ ~Raises(ae, is_manager)
    /\ "building_damage_chance" \in DOMAIN EventData[ae.id].effects

\* the "Dégâts aux bâtiments" loop; draws: the outcomes of the coming damage
\* rolls, one set of building types (those with random.random() <
\* damage_chance) per event that rolls
Damage(P, draws) ==
    RemoveOneOfEach(P, (IF draws = <<>> THEN {} ELSE Head(draws)) \cap DOMAIN P.buildings)

\* self.effects_applied = True, at the end of the one-shot block
Marked(ae) ==
    IF ~ae.effects_applied
    THEN [ae EXCEPT !.effects_applied = TRUE, !.one_shots = @ + 1]
    ELSE ae

\* the "Effets continus" block of apply_effects, at wall clock time t
Continuous(ae, P, t) ==
    LET effects == EventData[ae.id].effects IN
    IF ae.duration > 0 /\ ~is_expired(ae, t)
    THEN [P EXCEPT
            !.base_temperature = @ + Get(effects, "temperature_modifier", 0),
            !.base_pressure = @ + Get(effects, "pressure_modifier", 0),
            !.base_oxygen = @ + Get(effects, "oxygen_modifier", 0)]
    ELSE P

\* ActiveEvent.apply_effects(planet, resource_manager) at wall clock time t.
\* is_manager: whether the second argument is a ResourceManager (then R).
\* The call uses the first of draws if it rolls damage, and returns the rest.
\* Result: the event, the planet, the ledger, whether the call raised, and
\* the draws left.
apply_effects(ae, P, R, is_manager, draws, t) ==
    IF Raises(ae, is_manager)
    THEN [ae |-> ae, planet |-> P, rm |-> R, raised |-> TRUE, draws |-> draws]
    ELSE [ae |-> Marked(ae),
          planet |-> Continuous(Marked(ae),
                                IF Rolls(ae, is_manager) THEN Damage(P, draws) ELSE P,
                                t),
          rm |-> IF ~ae.effects_applied /\ is_manager
                 THEN OneShotResources(R, EventData[ae.id].effects) ELSE R,
          raised |-> FALSE,
          draws |-> IF Rolls(ae, is_manager) /\ draws # <<>>
                    THEN Tail(draws) ELSE draws]

\* the planet an apply_effects call leaves, its i-th active event updated
Stored(res, i) == [res.planet EXCEPT !.active_events[i] = res.ae]

RECURSIVE PlanetApplyFrom(_, _, _, _, _)
RECURSIVE PlanetApplyNext(_, _, _, _)
\* the loop "for event in self.active_events: event.apply_effects(self,
\* delta_time)" of Planet._update_events from position i on.  The second
\* argument of apply_effects is the float delta_time: R only stands in its
\* place and is never read.  The loop ends at the first call that raises.
PlanetApplyFrom(P, R, i, draws, t) ==
    IF i > Len(P.active_events)
    THEN [planet |-> P, raised |-> FALSE, draws |-> draws]
    ELSE PlanetApplyNext(apply_effects(P.active_events[i], P, R, FALSE, draws, t),
                         R, i, t)

\* the loop after the call on the i-th event returned or raised res
PlanetApplyNext(res, R, i, t) ==
    IF res.raised
    THEN [planet |-> Stored(res, i), raised |-> TRUE, draws |-> res.draws]
    ELSE PlanetApplyFrom(Stored(res, i), R, i + 1, res.draws, t)

\* Planet._update_events at wall clock time t
update_events(P, R, draws, t) ==
    LET kept == SelectSeq(P.active_events, LAMBDA ae : ~is_expired(ae, t))
    IN  PlanetApplyFrom([P EXCEPT !.active_events = kept], R, 1, draws, t)

\* the first two blocks of Planet.update: temperature, pressure and oxygen
\* recomputed from the base values and the modifiers, within the limits
Atmosphere(P) ==
    [P EXCEPT
       !.temperature = Max(MIN_TEMPERATURE, Min(MAX_TEMPERATURE,
                           P.base_temperature + P.temperature_modifier)),
       !.pressure = Max(MIN_PRESSURE, Min(MAX_PRESSURE,
                        P.base_pressure + P.pressure_modifier)),
       !.oxygen = Max(MIN_OXYGEN, Min(MAX_OXYGEN,
                      P.base_oxygen + P.oxygen_modifier))]

\* the samples Planet.update appends to its history
PlanetSampled(P) ==
    [P EXCEPT !.history =
        Recorded(@, "temperature", [temperature |-> P.temperature,
                                    pressure |-> P.pressure,
                                    oxygen |-> P.oxygen,
                                    habitability |-> calculate_habitability(P)])]

\* Planet.update without its "Appliquer les limites" block
planet_update_no_limits(P, R, draws, t) ==
    update_events(
        PlanetSampled([P EXCEPT
                          !.temperature = P.base_temperature + P.temperature_modifier,
                          !.pressure = P.base_pressure + P.pressure_modifier,
                          !.oxygen = P.base_oxygen + P.oxygen_modifier]),
        R, draws, t)

\* Planet.update at wall clock time t: the planet after the call, whether it
\* raised (in _update_events, after the atmosphere was recomputed), and the
\* draws left
planet_update(P, R, draws, t) ==
    update_events(PlanetSampled(Atmosphere(P)), R, draws, t)

\* Planet.apply_event
apply_event(P, ae) == [P EXCEPT !.active_events = Append(@, ae)]

\* EventManager.__init__ at wall clock time t
NewEventManager(t) == [last_event_check |-> t]

\* EventManager.event_check_interval (seconds)
event_check_interval == 60

\* the order of EventManager.event_templates.values()
EventOrder == <<"resource_discovery", "meteor_shower", "dust_storm", "power_surge">>

\* _check_event_requirements without its "Vérifier la pression minimale" block
check_event_requirements_no_pressure(event_id, P, R) ==
    LET req == EventData[event_id].requirements
        total_buildings ==
            SumOver(P.buildings, DOMAIN P.buildings)
    IN  /\ "min_buildings" \in DOMAIN req => ~(total_buildings < req.min_buildings)
        /\ "planets" \in DOMAIN req => P.name \in req.planets
        /\ "min_habitability" \in DOMAIN req
              => ~(calculate_habitability(P) < req.min_habitability)
        /\ "min_science" \in DOMAIN req => ~(R.science < req.min_science)
        /\ "min_research_labs" \in DOMAIN req
              => ~(Get(P.buildings, "research_lab", 0) < req.min_research_labs)
        /\ "min_mining_facilities" \in DOMAIN req
              => ~(Get(P.buildings, "mining_facility", 0) < req.min_mining_facilities)

\* EventManager._check_event_requirements
check_event_requirements(event_id, P, R) ==
    LET req == EventData[event_id].requirements
        total_buildings ==
            SumOver(P.buildings, DOMAIN P.buildings)
    IN  /\ "min_buildings" \in DOMAIN req => ~(total_buildings < req.min_buildings)
        /\ "planets" \in DOMAIN req => P.name \in req.planets
        /\ "min_habitability" \in DOMAIN req
              => ~(calculate_habitability(P) < req.min_habitability)
        /\ "min_science" \in DOMAIN req => ~(R.science < req.min_science)
        /\ "min_research_labs" \in DOMAIN req
              => ~(Get(P.buildings, "research_lab", 0) < req.min_research_labs)
        /\ "min_mining_facilities" \in DOMAIN req
              => ~(Get(P.buildings, "mining_facility", 0) < req.min_mining_facilities)
        /\ "min_pressure" \in DOMAIN req => ~(P.pressure < req.min_pressure)

\* EventManager.trigger_event at wall clock time t: the planet after the call
\* and what it returns
trigger_event(event_id, P, t) ==
    IF event_id \notin EventIds
    THEN [planet |-> P, ret |-> FALSE]
    ELSE [planet |-> apply_event(P, NewActiveEvent(event_id, t)), ret |-> TRUE]

\* the "déjà actif" test counting only the events whose one-shot effects are
\* yet to be applied
AlreadyActive_unapplied(P, event_id) ==
    \E i \in DOMAIN P.active_events :
        P.active_events[i].id = event_id /\ ~P.active_events[i].effects_applied

\* whether an event of this template is in planet.active_events
AlreadyActive(P, event_id) ==
    \E i \in DOMAIN P.active_events : P.active_events[i].id = event_id

RECURSIVE CheckFrom(_, _, _, _, _)
\* EventManager._check_for_new_events from the i-th template on; passed is
\* the set of templates whose probability draw succeeded
CheckFrom(P, R, i, passed, t) ==
    IF i > Len(EventOrder) THEN P
    ELSE LET event_id == EventOrder[i]
             fires == /\ event_id \in passed
                      /\ check_event_requirements(event_id, P, R)
                      /\ ~AlreadyActive(P, event_id)
         IN  CheckFrom(IF fires THEN trigger_event(event_id, P, t).planet ELSE P,
                       R, i + 1, passed, t)

\* EventManager._check_for_new_events
check_for_new_events(P, R, passed, t) == CheckFrom(P, R, 1, passed, t)

\* the position in planet.active_events of the event object ae
PositionOf(P, ae) ==
    CHOOSE j \in DOMAIN P.active_events : P.active_events[j] = ae

\* planet.active_events.remove(active_event), the event at position k
RemoveAt(P, k) ==
    [P EXCEPT !.active_events =
        [j \in 1..(Len(P.active_events) - 1) |->
            IF j < k THEN P.active_events[j] ELSE P.active_events[j + 1]]]

RECURSIVE EventLoopFrom(_, _, _, _, _, _)
RECURSIVE EventLoopNext(_, _, _, _, _)
\* the loop over planet.active_events[:] of EventManager.update from position
\* i of the copy (events) on: an expired event is removed from
\* planet.active_events, any other has its effects applied
EventLoopFrom(P, R, events, i, draws, t) ==
    IF i > Len(events) THEN [planet |-> P, rm |-> R]
    ELSE IF is_expired(events[i], t)
    THEN EventLoopFrom(RemoveAt(P, PositionOf(P, events[i])), R, events, i + 1,
                       draws, t)
    ELSE EventLoopNext(apply_effects(events[i], P, R, TRUE, draws, t),
                       PositionOf(P, events[i]), events, i, t)

\* the loop after apply_effects on the i-th event of the copy, which is at
\* position k of planet.active_events, returned res
EventLoopNext(res, k, events, i, t) ==
    EventLoopFrom(Stored(res, k), res.rm, events, i + 1, res.draws, t)

\* EventManager.update checking for new events at every call
CheckDue_always(EM, t) == t - EM.last_event_check >= 0

\* whether EventManager.update at wall clock time t checks for new events
CheckDue(EM, t) == t - EM.last_event_check >= event_check_interval

\* what EventManager.update leaves: the manager, the planet and the ledger
EmResult(EM, loop) == [em |-> EM, planet |-> loop.planet, rm |-> loop.rm]

\* EventManager.update from "Mettre à jour les événements actifs" on
EmLoop(EM, P, R, draws, t) ==
    EmResult(EM, EventLoopFrom(P, R, P.active_events, 1, draws, t))

\* EventManager.update at wall clock time t: the manager, the planet and the
\* ledger after the call
em_update(EM, P, R, passed, draws, t) ==
    EmLoop(IF CheckDue(EM, t) THEN [EM EXCEPT !.last_event_check = t] ELSE EM,
           IF CheckDue(EM, t) THEN check_for_new_events(P, R, passed, t) ELSE P,
           R, draws, t)


-----------------------------------------------------------------------------
(* core/game_engine.py *)

\* the building_costs table of GameEngine.build_structure
BuildingCosts ==
    [solar_panel |-> [credits |-> 100, energy |-> 10],
     heater |-> [credits |-> 150, energy |-> 20],
     cooler |-> [credits |-> 150, energy |-> 20],
     atmosphere_processor |-> [credits |-> 300, energy |-> 50],
     oxygen_generator |-> [credits |-> 200, energy |-> 30],
     greenhouse |-> [credits |-> 250, energy |-> 25],
     research_lab |-> [credits |-> 400, energy |-> 40],
     mining_facility |-> [credits |-> 350, energy |-> 35]]

\* total_cost of GameEngine.build_structure (hundredths)
TotalCost(building_type, count) ==
    [resource \in DOMAIN BuildingCosts[building_type] |->
        BuildingCosts[building_type][resource] * count * CENTI]

\* GameEngine.build_structure from "Construire le bâtiment" on, spent being
\* what spend_resources returned
Construct(P, R, built, building_type, count, spent) ==
    IF ~spent.ret
    THEN [planet |-> P, rm |-> R, built |-> built, ret |-> FALSE]
    ELSE [planet |-> add_building(P, building_type, count),
          rm |-> spent.rm,
          built |-> built + count,
          ret |-> TRUE]

\* build_structure without its "Vérifier si le bâtiment est débloqué" block
build_structure_unchecked(P, R, T, built, building_type, count) ==
    IF P = NoPlanet \/ building_type \notin DOMAIN BuildingCosts
    THEN [planet |-> P, rm |-> R, built |-> built, ret |-> FALSE]
    ELSE Construct(P, R, built, building_type, count,
                   spend_resources(R, TotalCost(building_type, count)))

\* build_structure spending the cost before it checks the unlock
build_structure_spend_first(P, R, T, built, building_type, count) ==
    IF P = NoPlanet \/ building_type \notin DOMAIN BuildingCosts
    THEN [planet |-> P, rm |-> R, built |-> built, ret |-> FALSE]
    ELSE IF ~is_building_unlocked(T, building_type)
    THEN [planet |-> P,
          rm |-> spend_resources(R, TotalCost(building_type, count)).rm,
          built |-> built, ret |-> FALSE]
    ELSE Construct(P, R, built, building_type, count,
                   spend_resources(R, TotalCost(building_type, count)))

\* GameEngine.build_structure: the planet, the ledger and buildings_built
\* after the call, and what it returns
build_structure(P, R, T, built, building_type, count) ==
    IF \/ P = NoPlanet
       \/ ~is_building_unlocked(T, building_type)
       \/ building_type \notin DOMAIN BuildingCosts
    THEN [planet |-> P, rm |-> R, built |-> built, ret |-> FALSE]
    ELSE Construct(P, R, built, building_type, count,
                   spend_resources(R, TotalCost(building_type, count)))

\* GameEngine.set_simulation_speed: max(0.1, min(5.0, speed)), in tenths
ClampSpeed(speed) == Max(1, Min(50, speed))

\* What last_call records: the operation, its arguments, what it returned ("True", "False"
\* or None), whether it raised, and what it did on the way: for
\* update_simulation the subsystem calls it made, each with the delta_time it
\* was given (EventManager.update also with the planet and the ledger it was
\* given); for start_research the technology whose research it stopped.
Call(op, args, ret, raised, calls) ==
    [op |-> op, args |-> args, ret |-> ret, raised |-> raised, calls |-> calls]

Bool(b) == IF b THEN "True" ELSE "False"

\* the subsystem calls of GameEngine.update_simulation, in the order of the
\* code, each with the delta_time it is given
TickCalls(delta_time) ==
    <<[fn |-> "calculate_production", delta_time |-> None],
      [fn |-> "Planet.update", delta_time |-> delta_time],
      [fn |-> "ResourceManager.update", delta_time |-> delta_time],
      [fn |-> "update_research", delta_time |-> delta_time],
      [fn |-> "EventManager.update", delta_time |-> delta_time]>>

\* update_simulation, when a call raised after n subsystem calls were made
TickRaised(P, R, T, EM, dt, n) ==
    [planet |-> P, rm |-> R, tree |-> T, em |-> EM, delta_time |-> dt,
     raised |-> TRUE, calls |-> SubSeq(TickCalls(dt), 1, n)]

\* update_simulation after event_manager.update, called with the planet P and
\* the ledger R, returned eu
TickAfterEvents(eu, tu, dt, P, R) ==
    [planet |-> eu.planet, rm |-> eu.rm, tree |-> tu.tree, em |-> eu.em,
     delta_time |-> dt, raised |-> FALSE,
     calls |-> [TickCalls(dt) EXCEPT ![5] =
                   [fn |-> "EventManager.update", delta_time |-> dt,
                    planet |-> P, resource_manager |-> R]]]

\* update_simulation after technology_tree.update_research returned or
\* raised tu
TickAfterResearch(pu, R, tu, EM, passed, dt) ==
    IF tu.raised THEN TickRaised(pu.planet, R, tu.tree, EM, dt, 4)
    ELSE TickAfterEvents(em_update(EM, pu.planet, R, passed, pu.draws, now), tu, dt,
                         pu.planet, R)

\* update_simulation with a research that spends the science it is given
TickAfterLedger_spending(pu, R, T, EM, passed, dt) ==
    TickAfterResearch(pu,
                      IF T.current_research = None THEN R
                      ELSE [R EXCEPT !.science =
                               Max(0, @ - MulDiv(R.science_per_second, dt, CENTI))],
                      update_research(T, R.science_per_second, dt),
                      EM, passed, dt)

\* update_simulation after resource_manager.update left the ledger R
TickAfterLedger(pu, R, T, EM, passed, dt) ==
    TickAfterResearch(pu, R, update_research(T, R.science_per_second, dt),
                      EM, passed, dt)

\* update_simulation after current_planet.update returned or raised pu
TickAfterPlanet(pu, R, T, EM, passed, dt) ==
    IF pu.raised THEN TickRaised(pu.planet, R, T, EM, dt, 2)
    ELSE TickAfterLedger(pu, rm_update(R, dt), T, EM, passed, dt)

\* update_simulation after calculate_production left the ledger R
TickAfterProduction(P, R, T, EM, passed, draws, dt) ==
    TickAfterPlanet(planet_update(P, R, draws, now), R, T, EM, passed, dt)

\* delta_time of GameEngine.update_simulation (hundredths of a second)
DeltaTime == (now - last_update_time) * simulation_speed * 10

\* GameEngine.update_simulation past its guard, at wall clock time now: the
\* state after the handler returned or raised.  passed: the event templates
\* whose probability draw succeeds if the periodic check runs; draws: the
\* outcomes of the building damage rolls.
update_simulation(P, R, T, EM, passed, draws) ==
    TickAfterProduction(P, calculate_production(R, P, P.buildings), T, EM,
                        passed, draws, DeltaTime)

-----------------------------------------------------------------------------
(* Bounds of the model *)

\* the wall clock stops at MaxClock
MaxClock == 120
\* at most MaxActiveEvents events are forced onto a planet at a time
MaxActiveEvents == 2
\* no building count leaves -MaxBuildings .. MaxBuildings
MaxBuildings == 25
\* when buildings are added to the planet directly, the counts stay within
\* MaxPlanetBuildings of zero in total
MaxPlanetBuildings == 200
\* add_resources is not called when it would take the credits above MaxCredits
MaxCredits == 3000

\* the event templates that roll building damage
DamagingEvents ==
    {e \in EventIds : "building_damage_chance" \in DOMAIN EventData[e].effects}

\* The building damage rolls one tick can make: one per active event that
\* has yet to apply its one-shot effects, one per event the check may trigger.
DrawChoices(P, passed) ==
    LET waiting == {i \in DOMAIN P.active_events :
                      /\ P.active_events[i].id \in DamagingEvents
                      /\ ~P.active_events[i].effects_applied}
        n == Cardinality(waiting) + Cardinality(passed \cap DamagingEvents)
    IN  [1..n -> SUBSET DOMAIN P.buildings]

-----------------------------------------------------------------------------
(* The engine: GameEngine's handlers, and the components' public methods  *)
(* a caller reaches through the engine's attributes.                      *)

\* no file in SAVES_DIRECTORY: open() raises FileNotFoundError
NoFile == [save_time |-> None]

\* GameEngine.__init__ at wall clock time 0
Init ==
    /\ now = 0
    /\ current_planet = NoPlanet
    /\ resource_manager = NewResourceManager
    /\ technology_tree = NewTechnologyTree
    /\ event_manager = NewEventManager(0)
    /\ is_running = FALSE
    /\ is_paused = FALSE
    /\ simulation_speed = 10
    /\ game_time = 0
    /\ last_update_time = 0
    /\ paused_for = 0
    /\ game_stats = [buildings_built |-> 0]
    /\ save_file = NoFile
    /\ last_call = Call("__init__", <<>>, None, FALSE, <<>>)

\* d seconds pass
AdvanceClock(d) ==
    /\ now + d <= MaxClock
    /\ now' = now + d
    /\ paused_for' = IF is_paused THEN paused_for + d ELSE paused_for
    /\ UNCHANGED <<save_file, current_planet, resource_manager, technology_tree, event_manager,
                   is_running, is_paused, simulation_speed, game_time,
                   last_update_time, game_stats, last_call>>

\* GameEngine.start_new_game, with start_simulation
StartNewGame(planet_name) ==
    /\ last_call' = Call("start_new_game", <<planet_name>>, Bool(planet_name \in PlanetNames),
                         FALSE, <<>>)
    /\ IF planet_name \notin PlanetNames
       THEN UNCHANGED <<save_file, now, current_planet, resource_manager, technology_tree,
                        event_manager, is_running, is_paused, simulation_speed,
                        game_time, last_update_time, paused_for, game_stats>>
       ELSE /\ current_planet' = NewPlanet(planet_name)
            /\ resource_manager' = NewResourceManager
            /\ technology_tree' = NewTechnologyTree
            /\ event_manager' = NewEventManager(now)
            /\ game_stats' = [buildings_built |-> 0]
            /\ is_running' = TRUE
            /\ is_paused' = FALSE
            /\ last_update_time' = now
            /\ paused_for' = 0
            /\ UNCHANGED <<save_file, now, simulation_speed, game_time>>

\* GameEngine.pause_simulation
PauseSimulation ==
    /\ is_paused' = ~is_paused
    /\ last_call' = Call("pause_simulation", <<>>, None, FALSE, <<>>)
    /\ UNCHANGED <<save_file, now, current_planet, resource_manager, technology_tree,
                   event_manager, is_running, simulation_speed, game_time,
                   last_update_time, paused_for, game_stats>>

\* GameEngine.stop_simulation
StopSimulation ==
    /\ is_running' = FALSE
    /\ last_call' = Call("stop_simulation", <<>>, None, FALSE, <<>>)
    /\ UNCHANGED <<now, current_planet, resource_manager, technology_tree,
                   event_manager, is_paused, simulation_speed, game_time,
                   last_update_time, paused_for, game_stats, save_file>>

\* GameEngine.set_simulation_speed
SetSimulationSpeed(speed) ==
    /\ simulation_speed' = ClampSpeed(speed)
    /\ last_call' = Call("set_simulation_speed", <<speed>>, None, FALSE, <<>>)
    /\ UNCHANGED <<save_file, now, current_planet, resource_manager, technology_tree,
                   event_manager, is_running, is_paused, game_time,
                   last_update_time, paused_for, game_stats>>

\* the state an executed tick leaves, u being what update_simulation computed
TickStep(u) ==
    /\ last_update_time' = now
    /\ paused_for' = 0
    /\ game_time' = game_time + u.delta_time
    /\ current_planet' = u.planet
    /\ resource_manager' = u.rm
    /\ technology_tree' = u.tree
    /\ event_manager' = u.em
    /\ last_call' = Call("update_simulation", <<>>, None, u.raised, u.calls)
    /\ UNCHANGED <<save_file, now, is_running, is_paused, simulation_speed, game_stats>>

\* update_simulation without the is_paused part of its guard
UpdateSimulation_through_pause(Passing) ==
    /\ now > last_update_time
    /\ IF ~is_running \/ current_planet = NoPlanet
       THEN /\ last_call' = Call("update_simulation", <<>>, None, FALSE, <<>>)
            /\ UNCHANGED <<save_file, now, current_planet, resource_manager, technology_tree,
                           event_manager, is_running, is_paused, simulation_speed,
                           game_time, last_update_time, paused_for, game_stats>>
       ELSE \E passed \in IF CheckDue(event_manager, now) THEN Passing ELSE {{}} :
            \E draws \in DrawChoices(current_planet, passed) :
                TickStep(update_simulation(current_planet, resource_manager,
                                           technology_tree, event_manager,
                                           passed, draws))

\* GameEngine.update_simulation, the handler of the simulation timer: the
\* timer fires SIMULATION_TICK_RATE after the last time it fired, so the wall
\* clock has moved since the last executed tick.
\* Passing: the sets of event templates whose probability draws may succeed.
UpdateSimulation(Passing) ==
    /\ now > last_update_time
    /\ IF ~is_running \/ is_paused \/ current_planet = NoPlanet
       THEN /\ last_call' = Call("update_simulation", <<>>, None, FALSE, <<>>)
            /\ UNCHANGED <<save_file, now, current_planet, resource_manager, technology_tree,
                           event_manager, is_running, is_paused, simulation_speed,
                           game_time, last_update_time, paused_for, game_stats>>
       ELSE \E passed \in IF CheckDue(event_manager, now) THEN Passing ELSE {{}} :
            \E draws \in DrawChoices(current_planet, passed) :
                TickStep(update_simulation(current_planet, resource_manager,
                                           technology_tree, event_manager,
                                           passed, draws))

\* the state a build_structure call leaves with the arguments args, b
\* being what it computed
BuildStep(args, b) ==
    /\ b.ret => \A t \in DOMAIN b.planet.buildings :
                    Abs(b.planet.buildings[t]) <= MaxBuildings
    /\ current_planet' = b.planet
    /\ resource_manager' = b.rm
    /\ game_stats' = [game_stats EXCEPT !.buildings_built = b.built]
    /\ last_call' = Call("build_structure", args, Bool(b.ret), FALSE, <<>>)
    /\ UNCHANGED <<save_file, now, technology_tree, event_manager, is_running, is_paused,
                   simulation_speed, game_time, last_update_time, paused_for>>

\* GameEngine.build_structure
BuildStructure(building_type, count) ==
    BuildStep(<<building_type, count>>,
              build_structure(current_planet, resource_manager, technology_tree,
                              game_stats.buildings_built, building_type, count))

\* the state a start_research call leaves with the arguments args, r
\* being what it computed
ResearchStep(args, r) ==
    /\ technology_tree' = r.tree
    /\ last_call' = Call("start_research", args, Bool(r.ret), FALSE,
                         IF r.stopped = None THEN <<>> ELSE <<r.stopped>>)
    /\ UNCHANGED <<save_file, now, current_planet, resource_manager, event_manager,
                   is_running, is_paused, simulation_speed, game_time,
                   last_update_time, paused_for, game_stats>>

\* GameEngine.start_research
StartResearch(tech_id) ==
    ResearchStep(<<tech_id>>, start_research(technology_tree, tech_id))

\* TechnologyTree.complete_research, called on engine.technology_tree
CompleteResearch(tech_id) ==
    /\ technology_tree' = complete_research(technology_tree, tech_id)
    /\ last_call' = Call("complete_research", <<tech_id>>, None, FALSE, <<>>)
    /\ UNCHANGED <<save_file, now, current_planet, resource_manager, event_manager,
                   is_running, is_paused, simulation_speed, game_time,
                   last_update_time, paused_for, game_stats>>

\* the state a force_event call leaves with the arguments args, r being what
\* trigger_event computed
ForceStep(args, r) ==
    /\ current_planet' = r.planet
    /\ last_call' = Call("force_event", args, Bool(r.ret), FALSE, <<>>)
    /\ UNCHANGED <<save_file, now, resource_manager, technology_tree, event_manager,
                   is_running, is_paused, simulation_speed, game_time,
                   last_update_time, paused_for, game_stats>>

\* EventManager.force_event, called on engine.event_manager with the
\* engine's planet and ledger
ForceEvent(event_id) ==
    /\ current_planet # NoPlanet
    /\ Len(current_planet.active_events) < MaxActiveEvents
    /\ ForceStep(<<event_id>>, trigger_event(event_id, current_planet, now))

\* list(a set): its members in some order
RECURSIVE list(_)
list(S) ==
    IF S = {} THEN <<>>
    ELSE LET member == CHOOSE member \in S : TRUE
         IN  <<member>> \o list(S \ {member})

\* set(a list)
set(items) == {items[i] : i \in DOMAIN items}

\* Planet.to_dict
planet_to_dict(P) ==
    [name |-> P.name,
     temperature |-> P.temperature,
     pressure |-> P.pressure,
     oxygen |-> P.oxygen,
     base_temperature |-> P.base_temperature,
     base_pressure |-> P.base_pressure,
     base_oxygen |-> P.base_oxygen,
     buildings |-> P.buildings,
     history |-> P.history]

\* Planet.from_dict, planet_data being the template of the saved name
planet_from_dict(data) ==
    update_modifiers([NewPlanet(data.name) EXCEPT !.temperature = data.temperature,
                                                  !.pressure = data.pressure,
                                                  !.oxygen = data.oxygen,
                                                  !.buildings = data.buildings,
                                                  !.history = data.history])

\* ResourceManager.to_dict
rm_to_dict(R) ==
    [credits |-> R.credits,
     energy |-> R.energy,
     science |-> R.science,
     max_energy |-> R.max_energy,
     max_science |-> R.max_science,
     history |-> R.history]

\* ResourceManager.from_dict
rm_from_dict(data) ==
    [NewResourceManager EXCEPT !.credits = data.credits,
                               !.energy = data.energy,
                               !.science = data.science,
                               !.max_energy = data.max_energy,
                               !.max_science = data.max_science,
                               !.history = data.history]

\* TechnologyTree.to_dict
tree_to_dict(T) ==
    [researched_technologies |-> list(T.researched_technologies),
     current_research |-> T.current_research,
     research_progress |-> T.research_progress,
     technology_progress |-> [t \in TechIds |-> T.technologies[t].research_progress]]

\* from_dict leaving every technology's progress as the constructor set it
tree_from_dict_no_progress(data) ==
    LET tree == NewTechnologyTree
        researched == set(data.researched_technologies)
    IN  update_availability(
            [tree EXCEPT
                !.researched_technologies = researched,
                !.technologies =
                    [t \in TechIds |->
                        [tree.technologies[t] EXCEPT
                            !.is_researched = (t \in researched)]],
                !.current_research = data.current_research,
                !.research_progress = data.research_progress])

\* TechnologyTree.from_dict
tree_from_dict(data) ==
    LET tree == NewTechnologyTree
        researched == set(data.researched_technologies)
    IN  update_availability(
            [tree EXCEPT
                !.researched_technologies = researched,
                !.technologies =
                    [t \in TechIds |->
                        [tree.technologies[t] EXCEPT
                            !.is_researched = (t \in researched),
                            !.research_progress =
                                Get(data.technology_progress, t, @)]],
                !.current_research = data.current_research,
                !.research_progress = data.research_progress])

\* the save_data of GameEngine.save_game
save_data_of(time, game, P, R, T, stats, speed) ==
    [save_time |-> time,
     game_time |-> game,
     planet |-> planet_to_dict(P),
     resources |-> rm_to_dict(R),
     technology |-> tree_to_dict(T),
     stats |-> stats,
     simulation_speed |-> speed]

\* GameEngine.save_game
SaveGame ==
    /\ save_file' =
          IF current_planet = NoPlanet THEN save_file
          ELSE save_data_of(now, game_time, current_planet, resource_manager,
                            technology_tree, game_stats, simulation_speed)
    /\ last_call' = Call("save_game", <<>>, Bool(current_planet # NoPlanet),
                         FALSE, <<>>)
    /\ UNCHANGED <<now, current_planet, resource_manager, technology_tree,
                   event_manager, is_running, is_paused, simulation_speed,
                   game_time, last_update_time, paused_for, game_stats>>

\* GameEngine.load_game, with start_simulation; a missing file raises inside
\* the try block and the call returns False
LoadGame ==
    LET found == save_file # NoFile /\ save_file.planet.name \in PlanetNames IN
    /\ last_call' = Call("load_game", <<>>, Bool(found), FALSE, <<>>)
    /\ IF ~found
       THEN UNCHANGED <<now, current_planet, resource_manager, technology_tree,
                        event_manager, is_running, is_paused, simulation_speed,
                        game_time, last_update_time, paused_for, game_stats, save_file>>
       ELSE /\ current_planet' = planet_from_dict(save_file.planet)
            /\ resource_manager' = rm_from_dict(save_file.resources)
            /\ technology_tree' = tree_from_dict(save_file.technology)
            /\ game_time' = save_file.game_time
            /\ game_stats' = save_file.stats
            /\ simulation_speed' = save_file.simulation_speed
            /\ is_running' = TRUE
            /\ is_paused' = FALSE
            /\ last_update_time' = now
            /\ paused_for' = 0
            /\ UNCHANGED <<now, event_manager, save_file>>

\* a save file put in SAVES_DIRECTORY from outside the running program (copied
\* from another installation, or edited): the save of a new game on
\* planet_name with the speed multiplier it records
CopySaveFile(planet_name, speed) ==
    /\ save_file' = save_data_of(now, 0, NewPlanet(planet_name), NewResourceManager,
                                 NewTechnologyTree, [buildings_built |-> 0], speed)
    /\ UNCHANGED <<now, current_planet, resource_manager, technology_tree,
                   event_manager, is_running, is_paused, simulation_speed,
                   game_time, last_update_time, paused_for, game_stats, last_call>>

-----------------------------------------------------------------------------
(* Construction: a new game on a technology tree with basic_energy         *)
(* researched, then build_structure calls between ticks whose event draws  *)
(* all fail.                                                               *)

\* the arguments build_structure is called with
BuildCalls ==
    {<<"solar_panel", 1>>, <<"solar_panel", 20>>, <<"cooler", 1>>, <<"dome", 1>>,
     <<"research_lab", -23>>}

NextBuild ==
    \/ \E d \in {60} : AdvanceClock(d)
    \/ \E planet_name \in {"Eden", "Pluto"} : StartNewGame(planet_name)
    \/ UpdateSimulation({{}})
    \/ \E call \in BuildCalls : BuildStructure(call[1], call[2])
    \/ \E tech_id \in {"basic_energy"} : CompleteResearch(tech_id)

SpecBuild == Init /\ [][NextBuild]_vars

-----------------------------------------------------------------------------
(* Events: ticks with every outcome of the random draws, and events forced *)
(* between ticks.                                                          *)

NextEvents ==
    \/ \E d \in {60} : AdvanceClock(d)
    \/ \E planet_name \in {"Arid", "Eden"} : StartNewGame(planet_name)
    \/ UpdateSimulation(SUBSET EventIds)
    \/ \E event_id \in {"resource_discovery", "dust_storm", "alien_invasion"} :
          ForceEvent(event_id)
    \/ \E tech_id \in {"basic_energy"} : CompleteResearch(tech_id)
    \/ \E call \in {<<"solar_panel", 5>>} : BuildStructure(call[1], call[2])

SpecEvents == Init /\ [][NextEvents]_vars

-----------------------------------------------------------------------------
(* The components' public methods, called on the engine's attributes.      *)

\* how far the building counts of a planet are from zero, in total
Crowd(P) ==
    SumOver([b \in DOMAIN P.buildings |-> Abs(P.buildings[b])], DOMAIN P.buildings)

\* Planet.add_building, called on engine.current_planet
AddBuilding(building_type, count) ==
    /\ current_planet # NoPlanet
    /\ Crowd(add_building(current_planet, building_type, count)) <= MaxPlanetBuildings
    /\ current_planet' = add_building(current_planet, building_type, count)
    /\ last_call' = Call("add_building", <<building_type, count>>, None, FALSE, <<>>)
    /\ UNCHANGED <<save_file, now, resource_manager, technology_tree, event_manager, is_running,
                   is_paused, simulation_speed, game_time, last_update_time, paused_for, game_stats>>

\* Planet.remove_building, called on engine.current_planet
RemoveBuilding(building_type, count) ==
    /\ current_planet # NoPlanet
    /\ current_planet' = remove_building(current_planet, building_type, count)
    /\ last_call' = Call("remove_building", <<building_type, count>>, None, FALSE, <<>>)
    /\ UNCHANGED <<save_file, now, resource_manager, technology_tree, event_manager, is_running,
                   is_paused, simulation_speed, game_time, last_update_time, paused_for, game_stats>>

\* ResourceManager.calculate_production, called on engine.resource_manager
\* with the engine's planet and its buildings
CalculateProduction ==
    /\ current_planet # NoPlanet
    /\ \A t \in DOMAIN current_planet.buildings :
          Abs(current_planet.buildings[t]) <= MaxBuildings
    /\ resource_manager' = calculate_production(resource_manager, current_planet,
                                                current_planet.buildings)
    /\ last_call' = Call("calculate_production", <<>>, None, FALSE, <<>>)
    /\ UNCHANGED <<now, current_planet, technology_tree, event_manager, is_running,
                   is_paused, simulation_speed, game_time, last_update_time, paused_for,
                   game_stats, save_file>>

\* the state a spend_resources call leaves with the arguments args, r
\* being what it computed
SpendStep(args, r) ==
    /\ resource_manager' = r.rm
    /\ last_call' = Call("spend_resources", args, Bool(r.ret), FALSE, <<>>)
    /\ UNCHANGED <<save_file, now, current_planet, technology_tree, event_manager, is_running,
                   is_paused, simulation_speed, game_time, last_update_time, paused_for, game_stats>>

\* ResourceManager.spend_resources, called on engine.resource_manager
SpendResources(cost) ==
    SpendStep(<<cost>>, spend_resources(resource_manager, cost))

\* ResourceManager.add_resources, called on engine.resource_manager
AddResources(resources) ==
    /\ resource_manager.credits + Get(resources, "credits", 0) <= MaxCredits * CENTI
    /\ resource_manager' = add_resources(resource_manager, resources)
    /\ last_call' = Call("add_resources", <<resources>>, None, FALSE, <<>>)
    /\ UNCHANGED <<save_file, now, current_planet, technology_tree, event_manager, is_running,
                   is_paused, simulation_speed, game_time, last_update_time, paused_for, game_stats>>

\* the state an update_research call leaves with the arguments args, r
\* being what it computed
UpdateResearchStep(args, r) ==
    /\ technology_tree' = r.tree
    /\ last_call' = Call("update_research", args, None, r.raised, <<>>)
    /\ UNCHANGED <<save_file, now, current_planet, resource_manager, event_manager, is_running,
                   is_paused, simulation_speed, game_time, last_update_time, paused_for, game_stats>>

\* TechnologyTree.update_research, called on engine.technology_tree
UpdateResearch(science_points, delta_time) ==
    UpdateResearchStep(<<science_points, delta_time>>,
                       update_research(technology_tree, science_points, delta_time))

-----------------------------------------------------------------------------
(* The atmosphere: buildings added to and removed from the planet by the   *)
(* hundred, a timed event forced onto it, and ticks.                       *)

NextPlanet ==
    \/ \E d \in {60} : AdvanceClock(d)
    \/ \E planet_name \in {"Eden"} : StartNewGame(planet_name)
    \/ UpdateSimulation({{}})
    \/ \E call \in {<<"heater", 200>>, <<"heater", -200>>,
                    <<"atmosphere_processor", 200>>, <<"atmosphere_processor", -200>>,
                    <<"oxygen_generator", 200>>, <<"oxygen_generator", -200>>} :
          AddBuilding(call[1], call[2])
    \/ \E call \in {<<"heater", 200>>} : RemoveBuilding(call[1], call[2])
    \/ \E event_id \in {"dust_storm"} : ForceEvent(event_id)

SpecPlanet == Init /\ [][NextPlanet]_vars

-----------------------------------------------------------------------------
(* The ledger: resources added and spent.                                  *)

\* the costs SpendResources is called with
SpendCosts ==
    {[credits |-> 300 * CENTI],
     [credits |-> 200 * CENTI, energy |-> 150 * CENTI],
     [credits |-> 100 * CENTI, science |-> 2500 * CENTI],
     [energy |-> 2000 * CENTI],
     EmptyDict}

NextLedger ==
    \/ \E resources \in {[credits |-> 500 * CENTI],
                          [energy |-> 300 * CENTI, science |-> 5000 * CENTI],
                          [energy |-> (0 - 50) * CENTI]} :
          AddResources(resources)
    \/ \E cost \in SpendCosts : SpendResources(cost)

SpecLedger == Init /\ [][NextLedger]_vars

-----------------------------------------------------------------------------
(* Research: technologies started, advanced and switched.                  *)

\* the ids start_research is called with
ResearchCalls == TechIds \cup {"warp_drive"}

NextTech ==
    \/ \E tech_id \in ResearchCalls : StartResearch(tech_id)
    \/ \E science_points \in {1 * CENTI, 4 * CENTI} :
          \E delta_time \in {10 * CENTI} :
             UpdateResearch(science_points, delta_time)
    \/ \E tech_id \in {"basic_energy", "geology"} : CompleteResearch(tech_id)

SpecTech == Init /\ [][NextTech]_vars

-----------------------------------------------------------------------------
(* Properties.                                                             *)

\* the last operation was a tick in which Planet.update was called
PlanetUpdated ==
    last_call.op = "update_simulation" /\ Len(last_call.calls) >= 2

\* the last operation was a tick that ran to its end
FullTick ==
    last_call.op = "update_simulation" /\ Len(last_call.calls) = 5

\* the last operation was a tick that went past the guard of update_simulation
ExecutedTick ==
    /\ last_call.op = "update_simulation"
    /\ is_running /\ ~is_paused /\ current_planet # NoPlanet

\* the planet and the ledger the last full tick gave EventManager.update
Seen == last_call.calls[5]

\* the number of active events of a template on a planet
Count(P, event_id) ==
    Cardinality({i \in DOMAIN P.active_events : P.active_events[i].id = event_id})

\* every predicate present in the requirements of a template passes on the
\* planet P and the ledger R
Satisfied(event_id, P, R) ==
    LET req == EventData[event_id].requirements IN
    \A key \in DOMAIN req :
        CASE key = "min_buildings" ->
                 SumOver(P.buildings, DOMAIN P.buildings) >= req[key]
          [] key = "planets" -> P.name \in req[key]
          [] key = "min_habitability" -> calculate_habitability(P) >= req[key]
          [] key = "min_science" -> R.science >= req[key]
          [] key = "min_research_labs" ->
                 Get(P.buildings, "research_lab", 0) >= req[key]
          [] key = "min_mining_facilities" ->
                 Get(P.buildings, "mining_facility", 0) >= req[key]
          [] key = "min_pressure" -> P.pressure >= req[key]
          [] OTHER -> TRUE

\* the building counts of the engine's planet
Buildings(P) == IF P = NoPlanet THEN EmptyDict ELSE P.buildings

\* C1: after a Planet.update, whatever buildings were added and removed and
\* whatever event effects came before, temperature is in [-273.15, 1000],
\* pressure in [0, 10] and oxygen in [0, 100].
InvC1 ==
    PlanetUpdated =>
        /\ current_planet.temperature >= MIN_TEMPERATURE
        /\ current_planet.temperature <= MAX_TEMPERATURE
        /\ current_planet.pressure >= MIN_PRESSURE
        /\ current_planet.pressure <= MAX_PRESSURE
        /\ current_planet.oxygen >= MIN_OXYGEN
        /\ current_planet.oxygen <= MAX_OXYGEN

\* C1, witness: a Planet.update on a planet that heaters take above
\* MAX_TEMPERATURE and whose base temperature an event has moved
WitC1 ==
    /\ PlanetUpdated
    /\ "heater" \in DOMAIN current_planet.buildings
    /\ current_planet.base_temperature + current_planet.temperature_modifier
          > MAX_TEMPERATURE
    /\ current_planet.base_temperature
          # PlanetData[current_planet.name].initial_temperature
    /\ current_planet.temperature = MAX_TEMPERATURE

\* C2: in every state of the ledger, credits >= 0, 0 <= energy <= max_energy
\* and 0 <= science <= max_science.
CexC2 ==
    /\ resource_manager.credits >= 0
    /\ resource_manager.energy >= 0
    /\ resource_manager.energy <= resource_manager.max_energy
    /\ resource_manager.science >= 0
    /\ resource_manager.science <= resource_manager.max_science

\* C3: spend_resources is atomic: when it returns False the stocks are what
\* they were before the call, when it returns True every named amount has
\* been subtracted.
ThmC3 ==
    [][\A cost \in SpendCosts :
          SpendResources(cost) =>
              IF last_call'.ret = "False"
              THEN /\ resource_manager'.credits = resource_manager.credits
                   /\ resource_manager'.energy = resource_manager.energy
                   /\ resource_manager'.science = resource_manager.science
              ELSE /\ resource_manager'.credits
                         = resource_manager.credits - Get(cost, "credits", 0)
                   /\ resource_manager'.energy
                         = resource_manager.energy - Get(cost, "energy", 0)
                   /\ resource_manager'.science
                         = resource_manager.science - Get(cost, "science", 0)]_vars

\* C3, witness: spend_resources has refused a cost whose credits the ledger
\* could pay and whose energy it could not
WitC3 ==
    /\ last_call.op = "spend_resources"
    /\ last_call.ret = "False"
    /\ "credits" \in DOMAIN last_call.args[1]
    /\ "energy" \in DOMAIN last_call.args[1]
    /\ resource_manager.credits >= last_call.args[1].credits
    /\ resource_manager.energy < last_call.args[1].energy

\* whether build_structure(building_type, count) meets a type that is not
\* unlocked, a type that has no cost, or a total cost the stocks do not cover
Refused(building_type, count) ==
    \/ ~is_building_unlocked(technology_tree, building_type)
    \/ building_type \notin DOMAIN BuildingCosts
    \/ \E resource \in DOMAIN BuildingCosts[building_type] :
          resource_manager[resource]
             < BuildingCosts[building_type][resource] * count * CENTI

\* C4: build_structure returns False and leaves the stocks, the planet's
\* building counts and buildings_built unchanged whenever the type is not
\* unlocked, is unknown, or its total cost is not affordable.
ThmC4 ==
    [][\A call \in BuildCalls :
          (BuildStructure(call[1], call[2]) /\ Refused(call[1], call[2]))
          => /\ last_call'.ret = "False"
             /\ resource_manager'.credits = resource_manager.credits
             /\ resource_manager'.energy = resource_manager.energy
             /\ resource_manager'.science = resource_manager.science
             /\ Buildings(current_planet') = Buildings(current_planet)
             /\ game_stats'.buildings_built = game_stats.buildings_built]_vars

\* C4, witness: build_structure has refused a cooler, which is not unlocked,
\* on a planet and with stocks that cover its cost
WitC4 ==
    /\ last_call.op = "build_structure"
    /\ last_call.args = <<"cooler", 1>>
    /\ last_call.ret = "False"
    /\ current_planet # NoPlanet
    /\ resource_manager.credits >= BuildingCosts.cooler.credits * CENTI
    /\ resource_manager.energy >= BuildingCosts.cooler.energy * CENTI

\* C5: start_research returns False and changes neither current_research nor
\* any technology's progress whenever the id is unknown, the technology is
\* not available, or it is already researched.
ThmC5 ==
    [][\A tech_id \in ResearchCalls :
          (/\ StartResearch(tech_id)
           /\ \/ tech_id \notin TechIds
              \/ ~technology_tree.technologies[tech_id].is_available
              \/ technology_tree.technologies[tech_id].is_researched)
          => /\ last_call'.ret = "False"
             /\ technology_tree'.current_research = technology_tree.current_research
             /\ technology_tree'.research_progress = technology_tree.research_progress
             /\ \A t \in TechIds :
                   technology_tree'.technologies[t].research_progress
                      = technology_tree.technologies[t].research_progress]_vars

\* C5, witness: start_research has refused a researched technology while
\* another one was under way
WitC5 ==
    /\ last_call.op = "start_research"
    /\ last_call.ret = "False"
    /\ last_call.args[1] \in TechIds
    /\ technology_tree.technologies[last_call.args[1]].is_researched
    /\ technology_tree.current_research # None
    /\ technology_tree.research_progress > 0

\* C6: when start_research succeeds while another technology is being
\* researched, that technology's progress is reset to 0 and the new one
\* becomes current with progress 0.
ThmC6 ==
    [][\A tech_id \in ResearchCalls :
          (/\ StartResearch(tech_id)
           /\ last_call'.ret = "True"
           /\ technology_tree.current_research # None)
          => LET previous == technology_tree.current_research
             IN  /\ technology_tree'.technologies[previous].research_progress = 0
                 /\ technology_tree'.current_research = tech_id
                 /\ technology_tree'.technologies[tech_id].research_progress = 0
                 /\ technology_tree'.research_progress = 0]_vars

\* C6, witness: start_research has switched from one technology to another
WitC6 ==
    /\ last_call.op = "start_research"
    /\ last_call.ret = "True"
    /\ last_call.calls # <<>>
    /\ last_call.calls[1] # last_call.args[1]
    /\ technology_tree.current_research = last_call.args[1]

\* C7: the one-shot effects of every active event are applied exactly once,
\* whichever update path invokes apply_effects: after a tick whose
\* Planet.update was called, every event on the planet has had them applied
\* once.
CexC7 ==
    PlanetUpdated =>
        \A i \in DOMAIN current_planet.active_events :
            /\ current_planet.active_events[i].effects_applied
            /\ current_planet.active_events[i].one_shots = 1

\* C8 as amended: the periodic check of EventManager.update adds an event of
\* a template only when every predicate present in its requirements passes
\* on the planet and the ledger the check is given.
ThmC8 ==
    FullTick =>
        \A event_id \in EventIds :
            Count(current_planet, event_id) > Count(Seen.planet, event_id)
               => Satisfied(event_id, Seen.planet, Seen.resource_manager)

\* C8, witness: a periodic check on a planet whose pressure is below the
\* min_pressure of dust_storm has added a power_surge and no dust_storm
WitC8 ==
    /\ FullTick
    /\ event_manager.last_event_check = now
    /\ Seen.planet.pressure < EventData.dust_storm.requirements.min_pressure
    /\ Count(current_planet, "power_surge") > Count(Seen.planet, "power_surge")
    /\ Count(current_planet, "dust_storm") = 0

\* C8 as stated: triggering an event whose requirements contain a predicate
\* that fails on the planet returns False and adds no ActiveEvent.
CexC8 ==
    [][\A event_id \in EventIds :
          (/\ ForceEvent(event_id)
           /\ ~Satisfied(event_id, current_planet, resource_manager))
          => /\ last_call'.ret = "False"
             /\ current_planet'.active_events = current_planet.active_events]_vars

\* C9 as amended: the periodic check of EventManager.update adds no event of
\* a template that already has an active event on the planet it is given.
ThmC9 ==
    FullTick =>
        \A event_id \in EventIds :
            Count(current_planet, event_id) > Count(Seen.planet, event_id)
               => Count(Seen.planet, event_id) = 0

\* C9, witness: a periodic check has run on a planet with an active event and
\* has added no second event of its template
WitC9 ==
    /\ FullTick
    /\ event_manager.last_event_check = now
    /\ \E event_id \in EventIds :
          /\ Count(Seen.planet, event_id) = 1
          /\ Count(current_planet, event_id) = 1

\* C9 as stated: planet.active_events holds at most one ActiveEvent per
\* template id in every reachable state.
CexC9 ==
    current_planet # NoPlanet =>
        \A event_id \in EventIds : Count(current_planet, event_id) <= 1

\* C10: every executed tick calls calculate_production, Planet.update,
\* ResourceManager.update, update_research and EventManager.update in this
\* order, each once, the last four with the same delta_time.
CexC10 ==
    ExecutedTick =>
        /\ [i \in 1..Len(last_call.calls) |-> last_call.calls[i].fn]
              = <<"calculate_production", "Planet.update", "ResourceManager.update",
                  "update_research", "EventManager.update">>
        /\ \A i \in 2..Len(last_call.calls) :
              last_call.calls[i].delta_time = last_call.calls[2].delta_time

-----------------------------------------------------------------------------
(* Pausing: a timed event on the planet, the simulation paused and resumed *)
(* while the wall clock runs.                                              *)

NextPause ==
    \/ \E d \in {60} : AdvanceClock(d)
    \/ \E planet_name \in {"Arid", "Eden"} : StartNewGame(planet_name)
    \/ PauseSimulation
    \/ StopSimulation
    \/ UpdateSimulation({{}, {"power_surge"}})
    \/ \E event_id \in {"dust_storm", "power_surge"} : ForceEvent(event_id)

SpecPause == Init /\ [][NextPause]_vars

\* C11: while the simulation is paused the remaining time of every active
\* timed event does not decrease.
CexC11 ==
    [][(/\ is_paused /\ is_paused'
        /\ current_planet # NoPlanet /\ current_planet' # NoPlanet)
          => \A i \in DOMAIN current_planet.active_events
                        \cap DOMAIN current_planet'.active_events :
                (/\ current_planet'.active_events[i].id
                       = current_planet.active_events[i].id
                 /\ current_planet'.active_events[i].start_time
                       = current_planet.active_events[i].start_time)
                   => get_remaining_time(current_planet'.active_events[i], now')
                         >= get_remaining_time(current_planet.active_events[i], now)]_vars

\* C12: no operation raises an exception in any reachable state.
CexC12 == ~last_call.raised

\* C13: update_research never divides by zero: with a current technology
\* whose cost has no science entry, or one equal to 0, the call completes.
CexC13 == last_call.op = "update_research" => ~last_call.raised

-----------------------------------------------------------------------------
(* Sustained research: technologies researched at a constant science rate. *)

\* the science rate of every update_research call (hundredths per second)
SustainedRate == 2 * CENTI

NextSustained ==
    \/ \E tech_id \in ResearchCalls : StartResearch(tech_id)
    \/ \E seconds \in {5, 10, 15} : UpdateResearch(SustainedRate, seconds * CENTI)

SpecSustained == Init /\ [][NextSustained]_vars

-----------------------------------------------------------------------------
(* Saved games: a game with buildings and research under way is saved and  *)
(* loaded, and save files arrive from outside the program.                 *)

NextSave ==
    \/ \E d \in {120} : AdvanceClock(d)
    \/ \E planet_name \in {"Eden"} : StartNewGame(planet_name)
    \/ \E call \in {<<"solar_panel", 5>>} : BuildStructure(call[1], call[2])
    \/ \E tech_id \in {"basic_energy", "climate_control"} : StartResearch(tech_id)
    \/ UpdateResearch(10 * CENTI, 10 * CENTI)
    \/ \E speed \in {0, 70} : SetSimulationSpeed(speed)
    \/ SaveGame
    \/ LoadGame
    \/ \E speed \in {100} : CopySaveFile("Eden", speed)

SpecSave == Init /\ [][NextSave]_vars

\* C15: converting the planet, the ledger and the technology tree with to_dict
\* and rebuilding them with from_dict gives the same building counts, the same
\* stocks and caps, the same researched set, the same current research and
\* the same progress of every technology.
ThmC15 ==
    /\ current_planet # NoPlanet =>
          planet_from_dict(planet_to_dict(current_planet)).buildings
              = current_planet.buildings
    /\ LET rebuilt == rm_from_dict(rm_to_dict(resource_manager)) IN
          /\ rebuilt.credits = resource_manager.credits
          /\ rebuilt.energy = resource_manager.energy
          /\ rebuilt.science = resource_manager.science
          /\ rebuilt.max_energy = resource_manager.max_energy
          /\ rebuilt.max_science = resource_manager.max_science
    /\ LET rebuilt == tree_from_dict(tree_to_dict(technology_tree)) IN
          /\ rebuilt.researched_technologies = technology_tree.researched_technologies
          /\ rebuilt.current_research = technology_tree.current_research
          /\ \A t \in TechIds :
                rebuilt.technologies[t].research_progress
                    = technology_tree.technologies[t].research_progress

\* C15, witness: load_game has rebuilt, from a file save_game wrote, a game
\* with a building, a researched technology and a research under way
WitC15 ==
    /\ last_call.op = "load_game"
    /\ last_call.ret = "True"
    /\ current_planet # NoPlanet
    /\ Get(current_planet.buildings, "solar_panel", 0) = 5
    /\ resource_manager.credits < INITIAL_CREDITS * CENTI
    /\ technology_tree.researched_technologies = {"basic_energy"}
    /\ technology_tree.current_research = "climate_control"
    /\ technology_tree.technologies["climate_control"].research_progress > 0
    /\ save_file.save_time < now

\* C18: the simulation speed multiplier is within [0.1, 5.0] in every
\* reachable state, whatever operation was called, load_game included.
CexC18 == simulation_speed >= 1 /\ simulation_speed <= 50

-----------------------------------------------------------------------------
(* Habitability: calculate_habitability on planets of every combination of *)
(* the parameter values below.                                             *)

\* temperatures, pressures and oxygen levels on both sides of the targets,
\* at the targets, at the tolerances and at the physical limits
Temperatures ==
    {MIN_TEMPERATURE, -5000, -4999, 0, 14000, 14999, 15000, 15001, 25000, 35000,
     35001, MAX_TEMPERATURE}
Pressures == {MIN_PRESSURE, 700, 701, 900, 999, 1000, 1001, 1300, MAX_PRESSURE}
Oxygens == {MIN_OXYGEN, 16000, 20000, 20999, 21000, 21001, 26000, MAX_OXYGEN}

\* a planet with the given parameters
InitHabitability ==
    /\ now = 0
    /\ \E temperature \in Temperatures, pressure \in Pressures, oxygen \in Oxygens :
          current_planet = [NewPlanet("Eden") EXCEPT !.temperature = temperature,
                                                     !.pressure = pressure,
                                                     !.oxygen = oxygen]
    /\ resource_manager = NewResourceManager
    /\ technology_tree = NewTechnologyTree
    /\ event_manager = NewEventManager(0)
    /\ is_running = FALSE
    /\ is_paused = FALSE
    /\ simulation_speed = 10
    /\ game_time = 0
    /\ last_update_time = 0
    /\ paused_for = 0
    /\ game_stats = [buildings_built |-> 0]
    /\ save_file = NoFile
    /\ last_call = Call("__init__", <<>>, None, FALSE, <<>>)

\* Planet.calculate_habitability, called on engine.current_planet
CalculateHabitability ==
    /\ current_planet # NoPlanet
    /\ last_call' = Call("calculate_habitability", <<>>,
                         calculate_habitability(current_planet), FALSE, <<>>)
    /\ UNCHANGED <<now, current_planet, resource_manager, technology_tree,
                   event_manager, is_running, is_paused, simulation_speed,
                   game_time, last_update_time, paused_for, game_stats, save_file>>

NextHabitability == CalculateHabitability

SpecHabitability == InitHabitability /\ [][NextHabitability]_vars

\* C16: calculate_habitability returns a value in [0, 100]; it returns 100
\* exactly when temperature, pressure and oxygen are at their targets; moving
\* one parameter further from its target never increases it; and it returns
\* 0 when all three deviations are at or beyond their tolerances.
ThmC16 ==
    last_call.op = "calculate_habitability" =>
        LET P == current_planet
            habitability == last_call.ret
        IN  /\ habitability >= 0
            /\ habitability <= 100 * MILLI
            /\ habitability = 100 * MILLI
                  <=> /\ P.temperature = TARGET_TEMPERATURE
                      /\ P.pressure = TARGET_PRESSURE
                      /\ P.oxygen = TARGET_OXYGEN
            /\ \A further \in Temperatures :
                  Abs(further - TARGET_TEMPERATURE) >= Abs(P.temperature - TARGET_TEMPERATURE)
                  => calculate_habitability([P EXCEPT !.temperature = further])
                        <= habitability
            /\ \A further \in Pressures :
                  Abs(further - TARGET_PRESSURE) >= Abs(P.pressure - TARGET_PRESSURE)
                  => calculate_habitability([P EXCEPT !.pressure = further])
                        <= habitability
            /\ \A further \in Oxygens :
                  Abs(further - TARGET_OXYGEN) >= Abs(P.oxygen - TARGET_OXYGEN)
                  => calculate_habitability([P EXCEPT !.oxygen = further])
                        <= habitability
            /\ (/\ Abs(P.temperature - TARGET_TEMPERATURE)
                      >= HABITABILITY_TOLERANCE.temperature
                /\ Abs(P.pressure - TARGET_PRESSURE) >= HABITABILITY_TOLERANCE.pressure
                /\ Abs(P.oxygen - TARGET_OXYGEN) >= HABITABILITY_TOLERANCE.oxygen)
               => habitability = 0

\* C16, witness: the call returned 0 on a planet whose three parameters are
\* exactly one tolerance away from their targets
WitC16 ==
    /\ last_call.op = "calculate_habitability"
    /\ last_call.ret = 0
    /\ current_planet.temperature = 35000
    /\ current_planet.pressure = 700
    /\ current_planet.oxygen = 26000

-----------------------------------------------------------------------------
(* Production: calculate_production on ledgers holding the rates of an     *)
(* earlier call, after the buildings changed.                              *)

NextProduction ==
    \/ \E planet_name \in {"Arid", "Eden"} : StartNewGame(planet_name)
    \/ \E call \in {<<"solar_panel", 10>>, <<"research_lab", 12>>} :
          AddBuilding(call[1], call[2])
    \/ \E call \in {<<"solar_panel", 10>>, <<"research_lab", 12>>} :
          RemoveBuilding(call[1], call[2])
    \/ CalculateProduction

SpecProduction == Init /\ [][NextProduction]_vars

\* the four rates of a ledger
Rates(R) ==
    <<R.credits_per_second, R.energy_per_second, R.science_per_second,
      R.energy_consumption>>

\* C17: the rates calculate_production leaves do not depend on the rates held
\* before the call (a ledger with any other rates gets the same ones), a
\* second call leaves them as the first did, and with no buildings on a
\* planet of habitability 0 they are credits 1.0, energy 0, science 0 and
\* consumption 0.
ThmC17 ==
    [][CalculateProduction =>
          LET P == current_planet
              other == [NewResourceManager EXCEPT !.credits_per_second = 777,
                                                  !.energy_per_second = 777,
                                                  !.science_per_second = 777,
                                                  !.energy_consumption = 777]
          IN  /\ Rates(resource_manager')
                    = Rates(calculate_production(NewResourceManager, P, P.buildings))
              /\ Rates(resource_manager')
                    = Rates(calculate_production(other, P, P.buildings))
              /\ Rates(calculate_production(resource_manager', P, P.buildings))
                    = Rates(resource_manager')
              /\ (DOMAIN P.buildings = {} /\ calculate_habitability(P) = 0)
                    => Rates(resource_manager') = <<1 * CENTI, 0, 0, 0>>]_vars

\* C17, witness: calculate_production has left the base trickle alone on a
\* planet of habitability 0 with no buildings
WitC17 ==
    /\ last_call.op = "calculate_production"
    /\ current_planet # NoPlanet
    /\ DOMAIN current_planet.buildings = {}
    /\ calculate_habitability(current_planet) = 0
    /\ Rates(resource_manager) = <<1 * CENTI, 0, 0, 0>>

\* C19: every entry of planet.buildings has a count strictly greater than 0.
CexC19 ==
    current_planet # NoPlanet =>
        \A building_type \in DOMAIN current_planet.buildings :
            current_planet.buildings[building_type] > 0

\* C20: at most one technology is being researched at any time, and the
\* tree's research_progress is that technology's research_progress while one
\* is current and 0 while none is.
ThmC20 ==
    /\ technology_tree.current_research \in TechIds \cup {None}
    /\ technology_tree.current_research # None =>
          technology_tree.research_progress
              = technology_tree.technologies[technology_tree.current_research]
                    .research_progress
    /\ technology_tree.current_research = None =>
          technology_tree.research_progress = 0

\* C20, witness: update_research has advanced climate_control, the current
\* research, after basic_energy was completed
WitC20 ==
    /\ last_call.op = "update_research"
    /\ technology_tree.researched_technologies = {"basic_energy"}
    /\ technology_tree.current_research = "climate_control"
    /\ technology_tree.research_progress > 0
    /\ technology_tree.research_progress
          = technology_tree.technologies["climate_control"].research_progress

-----------------------------------------------------------------------------
(* Base values: heaters built, added and removed, a dust storm forced onto *)
(* the planet, and ticks.                                                  *)

\* the arguments add_building and remove_building are called with
HeaterCalls == {<<"heater", 100>>}

NextBase ==
    \/ \E d \in {60} : AdvanceClock(d)
    \/ \E planet_name \in {"Eden"} : StartNewGame(planet_name)
    \/ \E tech_id \in {"climate_control"} : CompleteResearch(tech_id)
    \/ \E call \in {<<"heater", 1>>} : BuildStructure(call[1], call[2])
    \/ \E call \in HeaterCalls : AddBuilding(call[1], call[2])
    \/ \E call \in HeaterCalls : RemoveBuilding(call[1], call[2])
    \/ \E event_id \in {"dust_storm"} : ForceEvent(event_id)
    \/ UpdateSimulation({{}})

SpecBase == Init /\ [][NextBase]_vars

\* the three base values of a planet
Base(P) == <<P.base_temperature, P.base_pressure, P.base_oxygen>>

\* C21: add_building, remove_building, build_structure, and Planet.update on
\* a planet with no active events leave base_temperature, base_pressure and
\* base_oxygen unchanged.
ThmC21 ==
    [][current_planet # NoPlanet =>
          /\ \A call \in HeaterCalls :
                (AddBuilding(call[1], call[2]) \/ RemoveBuilding(call[1], call[2]))
                => Base(current_planet') = Base(current_planet)
          /\ BuildStructure("heater", 1)
                => Base(current_planet') = Base(current_planet)
          /\ (UpdateSimulation({{}}) /\ current_planet.active_events = <<>>)
                => /\ Base(current_planet') = Base(current_planet)
                   /\ Base(planet_update(current_planet, resource_manager, <<>>,
                                         now).planet) = Base(current_planet)]_vars

\* C21, witness: a tick has recomputed the temperature of a planet with a
\* heater built, a hundred added and no active events, and its base values are
\* those of the template
WitC21 ==
    /\ PlanetUpdated
    /\ current_planet.active_events = <<>>
    /\ Get(current_planet.buildings, "heater", 0) = 101
    /\ game_stats.buildings_built = 1
    /\ current_planet.temperature = current_planet.base_temperature + 101 * 5000
    /\ Base(current_planet) = Base(NewPlanet("Eden"))

\* C22: an instantaneous event is expired exactly when its one-shot effects
\* have been applied, a timed event exactly when the time since its start
\* is at least its duration, and an expired event applies no further effect:
\* a tick on a planet whose events have all expired leaves the planet and
\* the ledger a tick on the same planet without events leaves.
ThmC22 ==
    [][current_planet # NoPlanet =>
          /\ \A i \in DOMAIN current_planet.active_events :
                LET ae == current_planet.active_events[i] IN
                IF ae.duration = 0
                THEN is_expired(ae, now) <=> ae.one_shots > 0
                ELSE is_expired(ae, now) <=> now - ae.start_time >= ae.duration
          /\ (/\ UpdateSimulation({{}})
              /\ is_running /\ ~is_paused
              /\ current_planet.active_events # <<>>
              /\ \A i \in DOMAIN current_planet.active_events :
                    is_expired(current_planet.active_events[i], now))
             => /\ current_planet'
                      = update_simulation([current_planet EXCEPT !.active_events = <<>>],
                                          resource_manager, technology_tree,
                                          event_manager, {}, <<>>).planet
                /\ resource_manager'
                      = update_simulation([current_planet EXCEPT !.active_events = <<>>],
                                          resource_manager, technology_tree,
                                          event_manager, {}, <<>>).rm]_vars

\* C22, witness: the tick that triggered resource_discovery has applied its
\* one-shot effects once, and the event, still on the planet, is expired
WitC22 ==
    /\ FullTick
    /\ \E i \in DOMAIN current_planet.active_events :
          /\ current_planet.active_events[i].id = "resource_discovery"
          /\ current_planet.active_events[i].one_shots = 1
          /\ is_expired(current_planet.active_events[i], now)
    /\ \E i \in DOMAIN current_planet.active_events :
          /\ current_planet.active_events[i].id = "dust_storm"
          /\ now - current_planet.active_events[i].start_time = 120
          /\ is_expired(current_planet.active_events[i], now)

-----------------------------------------------------------------------------
(* Research in the tick: research labs built, a technology started, and    *)
(* ticks that produce science and advance the research.                    *)

NextResearch ==
    \/ \E d \in {60} : AdvanceClock(d)
    \/ \E planet_name \in {"Eden"} : StartNewGame(planet_name)
    \/ \E tech_id \in {"basic_energy"} : CompleteResearch(tech_id)
    \/ \E call \in {<<"research_lab", 1>>} : BuildStructure(call[1], call[2])
    \/ \E tech_id \in {"climate_control", "geology"} : StartResearch(tech_id)
    \/ UpdateSimulation({{}})

SpecResearch == Init /\ [][NextResearch]_vars

\* C23: start_research and complete_research leave the ledger as it was, and
\* in a tick update_research takes nothing from it: the ledger after the
\* tick is the one ResourceManager.update left, and the tree is the one
\* update_research makes of the science production rate.
ThmC23 ==
    [][/\ \A tech_id \in TechIds :
             (StartResearch(tech_id) \/ CompleteResearch(tech_id))
             => resource_manager' = resource_manager
       /\ (/\ UpdateSimulation({{}})
           /\ is_running /\ ~is_paused /\ current_planet # NoPlanet)
          => LET produced == calculate_production(resource_manager, current_planet,
                                                  current_planet.buildings)
             IN  /\ resource_manager' = rm_update(produced, DeltaTime)
                 /\ technology_tree'
                       = update_research(technology_tree, produced.science_per_second,
                                         DeltaTime).tree]_vars

\* C23, witness: a tick has advanced climate_control and the science stock
\* has grown by what the tick produced
WitC23 ==
    /\ FullTick
    /\ technology_tree.current_research = "climate_control"
    /\ technology_tree.research_progress > 0
    /\ resource_manager.science_per_second > 0
    /\ resource_manager.science
          = MulDiv(resource_manager.science_per_second, last_call.calls[4].delta_time,
                   CENTI)

-----------------------------------------------------------------------------
(* Histories: a game started at time 0, dust storms forced onto its planet *)
(* before the first tick, and the simulation timer firing every second.    *)

NextHistory ==
    \/ now = last_update_time /\ AdvanceClock(1)
    \/ now = 0 /\ StartNewGame("Eden")
    \/ now = 0 /\ ForceEvent("dust_storm")
    \/ UpdateSimulation({{}})

SpecHistory == Init /\ [][NextHistory]_vars

\* every series of a history holds at most 100 samples, and as many as the
\* others
Bounded(history) ==
    \A key \in DOMAIN history :
        /\ Len(history[key]) <= 100
        /\ \A other \in DOMAIN history : Len(history[other]) = Len(history[key])

\* the most recent 100 of the samples of a series followed by one more
Recent(series, sample) ==
    LET all == Append(series, sample) IN
    IF Len(all) > 100 THEN SubSeq(all, Len(all) - 99, Len(all)) ELSE all

\* C24: every history series of the planet and of the ledger holds at most
\* 100 samples, the series of one component have the same length, and an
\* update leaves in each series the most recent 100 samples in order: those
\* it held, the oldest dropped first, then the new one.
ThmC24 ==
    [][/\ Bounded(resource_manager.history) /\ Bounded(resource_manager'.history)
       /\ current_planet # NoPlanet => Bounded(current_planet.history)
       /\ current_planet' # NoPlanet => Bounded(current_planet'.history)
       /\ (/\ UpdateSimulation({{}})
           /\ is_running /\ ~is_paused /\ current_planet # NoPlanet)
          => /\ current_planet'.history
                   = [temperature |-> Recent(current_planet.history.temperature,
                                             current_planet'.temperature),
                      pressure |-> Recent(current_planet.history.pressure,
                                          current_planet'.pressure),
                      oxygen |-> Recent(current_planet.history.oxygen,
                                        current_planet'.oxygen),
                      habitability |-> Recent(current_planet.history.habitability,
                                              calculate_habitability(current_planet'))]
             /\ resource_manager'.history
                   = [credits |-> Recent(resource_manager.history.credits,
                                         resource_manager'.credits),
                      energy |-> Recent(resource_manager.history.energy,
                                        resource_manager'.energy),
                      science |-> Recent(resource_manager.history.science,
                                         resource_manager'.science)]]_vars

\* C24, witness: after more than 100 ticks under a dust storm the
\* temperature series holds 100 samples, each lower than the one before,
\* the first sample is no longer the initial temperature and the last one is
\* the planet's temperature
WitC24 ==
    /\ FullTick
    /\ game_time > 100 * CENTI
    /\ Len(current_planet.history.temperature) = 100
    /\ Len(resource_manager.history.credits) = 100
    /\ current_planet.history.temperature[1] < PlanetData.Eden.initial_temperature
    /\ current_planet.history.temperature[100] = current_planet.temperature
    /\ \A i \in 1..99 : current_planet.history.temperature[i + 1]
                            < current_planet.history.temperature[i]
    /\ \A i \in 1..99 : resource_manager.history.credits[i + 1]
                            > resource_manager.history.credits[i]

\* C25: a tick while the simulation is paused, stopped or without a planet
\* changes nothing: the planet with its active events, the ledger, the
\* technology tree and game_time are what they were.
ThmC25 ==
    [][(/\ UpdateSimulation({{}, {"power_surge"}})
        /\ (~is_running \/ is_paused \/ current_planet = NoPlanet))
       => UNCHANGED <<current_planet, resource_manager, technology_tree,
                      event_manager, game_time, last_update_time>>]_vars

\* C25, witness: the timer has fired on a paused game a minute or more after
\* its last executed tick, with a dust storm on the planet, and no subsystem
\* was called
WitC25 ==
    /\ last_call.op = "update_simulation"
    /\ last_call.calls = <<>>
    /\ is_running /\ is_paused
    /\ current_planet # NoPlanet
    /\ now > last_update_time
    /\ \E i \in DOMAIN current_planet.active_events :
          current_planet.active_events[i].id = "dust_storm"

\* C26: in every tick the habitability calculate_production scales the
\* credit and science production with is that of the atmosphere the current
\* buildings give, clamp(base + modifier), even when buildings were added or
\* removed since the previous tick.
CexC26 ==
    [][(/\ UpdateSimulation({{}})
        /\ is_running /\ ~is_paused /\ current_planet # NoPlanet)
       => Rates(resource_manager')
             = Rates(calculate_production(resource_manager, Atmosphere(current_planet),
                                          current_planet.buildings))]_vars

\* the sum of one continuous effect over the timed events of P that have not
\* expired at wall clock time t
Drift(P, key, t) ==
    LET active == {i \in DOMAIN P.active_events :
                      /\ P.active_events[i].duration > 0
                      /\ ~is_expired(P.active_events[i], t)}
    IN  SumOver([i \in active |-> Get(EventData[P.active_events[i].id].effects, key, 0)],
                active)

\* C27: in each tick each of base_temperature, base_pressure and base_oxygen
\* changes by exactly 0.001 times the configured modifier of every timed
\* event that is active, once per event, and by 0 for the expired ones.
CexC27 ==
    [][(/\ UpdateSimulation({{}})
        /\ is_running /\ ~is_paused /\ current_planet # NoPlanet)
       => Base(current_planet')
             = <<current_planet.base_temperature
                    + Drift(current_planet, "temperature_modifier", now),
                 current_planet.base_pressure
                    + Drift(current_planet, "pressure_modifier", now),
                 current_planet.base_oxygen
                    + Drift(current_planet, "oxygen_modifier", now)>>]_vars

-----------------------------------------------------------------------------
(* Reloading: a planet whose base values a dust storm has drifted is saved *)
(* and loaded.                                                             *)

NextReload ==
    \/ \E d \in {60} : AdvanceClock(d)
    \/ \E planet_name \in {"Eden"} : StartNewGame(planet_name)
    \/ \E event_id \in {"dust_storm"} : ForceEvent(event_id)
    \/ UpdateSimulation({{}})
    \/ SaveGame
    \/ LoadGame

SpecReload == Init /\ [][NextReload]_vars

\* the temperature, pressure and oxygen of a planet
Parameters(P) == <<P.temperature, P.pressure, P.oxygen>>

\* C28: a planet that is saved and loaded keeps its base_temperature,
\* base_pressure and base_oxygen, and the first Planet.update after the load
\* gives the temperature, pressure and oxygen the same update would have
\* given without the save and the load.
CexC28 ==
    [][(/\ LoadGame
        /\ current_planet # NoPlanet
        /\ save_file # NoFile
        /\ save_file.planet = planet_to_dict(current_planet))
       => /\ Base(current_planet') = Base(current_planet)
          /\ Parameters(Atmosphere(current_planet'))
                = Parameters(Atmosphere(current_planet))]_vars

-----------------------------------------------------------------------------
\* the three modifiers of a planet
Modifiers(P) == <<P.temperature_modifier, P.pressure_modifier, P.oxygen_modifier>>

\* the building_effects table summed over the counts of buildings
Summed(buildings) ==
    LET n(b) == Get(buildings, b, 0) IN
    <<5000 * n("heater") - 5000 * n("cooler") + 2000 * n("greenhouse"),
      100 * n("atmosphere_processor"),
      2000 * n("oxygen_generator") + 1000 * n("greenhouse")>>

\* the modifiers of the planet are the table summed over its buildings
ModifiersSummed ==
    current_planet # NoPlanet =>
        Modifiers(current_planet) = Summed(current_planet.buildings)

\* adding n buildings of a type and removing n of them gives the modifiers
\* back
RoundTrip ==
    current_planet # NoPlanet =>
        \A building_type \in {"heater", "oxygen_generator"} : \A n \in {1, 200} :
            Modifiers(remove_building(add_building(current_planet, building_type, n),
                                      building_type, n))
                = Modifiers(current_planet)

\* C29: in every state the three modifiers are the sum over the planet's
\* building counts of the effect table times the count, and adding n buildings
\* of a type then removing n of that type restores the modifiers.
CexC29 == ModifiersSummed /\ RoundTrip

-----------------------------------------------------------------------------
\* every technology of the tree T that is not researched is available exactly
\* when its prerequisites are all in the researched set
AvailabilityCurrent(T) ==
    \A t \in TechIds :
        ~T.technologies[t].is_researched =>
            (T.technologies[t].is_available
                <=> TechnologyData[t].prerequisites \subseteq T.researched_technologies)

\* C30: every technology that is not researched has is_available true if and
\* only if all its prerequisites are in researched_technologies, and
\* complete_research marks the technology researched with progress 100, adds
\* it to the researched set and clears current_research when it was the
\* current one (and leaves current_research alone when it was not).
ThmC30 ==
    [][/\ AvailabilityCurrent(technology_tree)
       /\ AvailabilityCurrent(technology_tree')
       /\ \A tech_id \in {"basic_energy", "geology"} :
             CompleteResearch(tech_id) =>
                /\ technology_tree'.technologies[tech_id].is_researched
                /\ technology_tree'.technologies[tech_id].research_progress = 100 * MILLI
                /\ technology_tree'.researched_technologies
                      = technology_tree.researched_technologies \cup {tech_id}
                /\ IF technology_tree.current_research = tech_id
                   THEN /\ technology_tree'.current_research = None
                        /\ technology_tree'.research_progress = 0
                   ELSE /\ technology_tree'.current_research
                              = technology_tree.current_research
                        /\ technology_tree'.research_progress
                              = technology_tree.research_progress]_vars

\* basic_energy was being researched when complete_research completed it: it
\* is researched with progress 100, nothing is current, and a technology
\* that needs only basic_energy is available
WitC30 ==
    /\ last_call.op = "complete_research"
    /\ last_call.args = <<"basic_energy">>
    /\ technology_tree.current_research = None
    /\ technology_tree.research_progress = 0
    /\ technology_tree.researched_technologies = {"basic_energy"}
    /\ technology_tree.technologies["basic_energy"].is_researched
    /\ technology_tree.technologies["basic_energy"].research_progress = 100 * MILLI
    /\ technology_tree.technologies["basic_energy"].researched_for > 0
    /\ \E t \in TechIds :
          /\ TechnologyData[t].prerequisites = {"basic_energy"}
          /\ ~technology_tree.technologies[t].is_researched
          /\ technology_tree.technologies[t].is_available

-----------------------------------------------------------------------------
(* Periodic checks: ticks every half interval, with every outcome of the   *)
(* probability draws, on a planet that meets the requirements of           *)
(* dust_storm and on one that does not.                                    *)

\* the outcomes of the probability draws of a check: the sets of templates
\* whose draw succeeds
Passings ==
    {{}, {"dust_storm"}, {"resource_discovery", "meteor_shower"}, EventIds}

NextChecks ==
    \/ \E d \in {30} : AdvanceClock(d)
    \/ \E planet_name \in {"Arid", "Eden"} : StartNewGame(planet_name)
    \/ UpdateSimulation(Passings)
    \/ \E event_id \in {"dust_storm"} : ForceEvent(event_id)

SpecChecks == Init /\ [][NextChecks]_vars

\* C31: new events are considered only at periodic checks: a check comes at
\* least 60 seconds after the check before it, a tick that is not a check
\* adds no event, and at a check each template has one probability draw and
\* an event of it is added (one, no more) only if the draw succeeded, its
\* requirements pass and no event of it was active.
ThmC31 ==
    [][\A passed \in Passings :
          (UpdateSimulation({passed}) /\ current_planet # NoPlanet) =>
             LET checked ==
                     event_manager'.last_event_check # event_manager.last_event_check
                 given == last_call'.calls[5]
             IN  /\ checked =>
                       /\ now - event_manager.last_event_check >= 60
                       /\ event_manager'.last_event_check = now
                       /\ Len(last_call'.calls) = 5
                 /\ ~checked =>
                       \A event_id \in EventIds :
                          Count(current_planet', event_id)
                             <= Count(current_planet, event_id)
                 /\ checked =>
                       \A event_id \in EventIds :
                          Count(current_planet', event_id) > Count(given.planet, event_id)
                             => /\ event_id \in passed
                                /\ Satisfied(event_id, given.planet,
                                             given.resource_manager)
                                /\ Count(given.planet, event_id) = 0
                                /\ Count(current_planet', event_id) = 1]_vars

\* C31, witness: the second check of a game, 60 seconds after the first, in
\* which the draws of resource_discovery and meteor_shower succeeded: it has
\* added a resource_discovery, no meteor_shower (the planet has no building)
\* and no second dust_storm (the first check added one)
WitC31 ==
    /\ FullTick
    /\ now = 120
    /\ event_manager.last_event_check = now
    /\ Count(Seen.planet, "dust_storm") = 1
    /\ Count(current_planet, "dust_storm") = 1
    /\ Count(current_planet, "resource_discovery") = 1
    /\ Count(current_planet, "meteor_shower") = 0
    /\ \E i \in DOMAIN current_planet.active_events :
          /\ current_planet.active_events[i].id = "dust_storm"
          /\ current_planet.active_events[i].start_time = 60
    /\ \E i \in DOMAIN current_planet.active_events :
          /\ current_planet.active_events[i].id = "resource_discovery"
          /\ current_planet.active_events[i].start_time = 120

-----------------------------------------------------------------------------
\* C32: time spent paused is not simulated time: an executed tick advances
\* game_time, and gives every subsystem a delta_time, of the wall clock time
\* since the previous executed tick less the time spent paused, times the
\* speed multiplier.
CexC32 ==
    [][(/\ UpdateSimulation({{}, {"power_surge"}})
        /\ is_running /\ ~is_paused /\ current_planet # NoPlanet)
       => LET unpaused ==
                  (now - last_update_time - paused_for) * simulation_speed * 10
          IN  /\ game_time' = game_time + unpaused
              /\ \A i \in 2..Len(last_call'.calls) :
                    last_call'.calls[i].delta_time = unpaused]_vars

-----------------------------------------------------------------------------
\* C33: whatever integer count build_structure is called with, the call does
\* not increase credits or energy: when it succeeds count is at least 1 and
\* each stock has gone down by the unit cost times count, and otherwise it is
\* rejected and the stocks are left alone.
CexC33 ==
    [][\A call \in BuildCalls :
          BuildStructure(call[1], call[2]) =>
             /\ resource_manager'.credits <= resource_manager.credits
             /\ resource_manager'.energy <= resource_manager.energy
             /\ IF last_call'.ret = "True"
                THEN /\ call[2] >= 1
                     /\ resource_manager'.credits
                           = resource_manager.credits
                             - BuildingCosts[call[1]].credits * call[2] * CENTI
                     /\ resource_manager'.energy
                           = resource_manager.energy
                             - BuildingCosts[call[1]].energy * call[2] * CENTI
                ELSE resource_manager' = resource_manager]_vars

-----------------------------------------------------------------------------
\* every technology of the set ids has all its prerequisites researched in
\* the tree T
PrerequisitesResearched(T, ids) ==
    \A t \in ids :
        /\ TechnologyData[t].prerequisites \subseteq T.researched_technologies
        /\ \A q \in TechnologyData[t].prerequisites : T.technologies[q].is_researched

\* C34: the researched set is closed under prerequisites (every researched
\* technology has all its prerequisites researched), and a technology that
\* start_research makes current had all its prerequisites researched when it
\* was started.
ThmC34 ==
    [][/\ PrerequisitesResearched(technology_tree',
                                  technology_tree'.researched_technologies
                                     \cup {t \in TechIds :
                                             technology_tree'.technologies[t].is_researched})
       /\ \A tech_id \in ResearchCalls :
             (StartResearch(tech_id) /\ last_call'.ret = "True")
                => /\ technology_tree'.current_research = tech_id
                   /\ PrerequisitesResearched(technology_tree, {tech_id})]_vars

\* C34, witness: climate_control, which needs basic_energy, was started and
\* has been researched by update_research calls
WitC34 ==
    /\ last_call.op = "update_research"
    /\ technology_tree.current_research = None
    /\ TechnologyData["climate_control"].prerequisites = {"basic_energy"}
    /\ technology_tree.technologies["climate_control"].is_researched
    /\ technology_tree.technologies["climate_control"].researched_for > 0
    /\ {"basic_energy", "climate_control"} \subseteq technology_tree.researched_technologies

-----------------------------------------------------------------------------
(* Research on a planet whose research labs were built with a negative     *)
(* count.                                                                  *)

NextLabs ==
    \/ \E d \in {60} : AdvanceClock(d)
    \/ \E planet_name \in {"Eden"} : StartNewGame(planet_name)
    \/ \E tech_id \in {"basic_energy"} : CompleteResearch(tech_id)
    \/ \E call \in {<<"research_lab", -23>>} : BuildStructure(call[1], call[2])
    \/ \E tech_id \in {"climate_control"} : StartResearch(tech_id)
    \/ UpdateSimulation({{}})

SpecLabs == Init /\ [][NextLabs]_vars

\* C35: every technology other than the current research has
\* research_progress 0 if it is not researched and 100 if it is, and the
\* current research has a progress of at least 0 and less than 100.
CexC35 ==
    \A t \in TechIds :
        LET tech == technology_tree.technologies[t] IN
        IF t = technology_tree.current_research
        THEN tech.research_progress >= 0 /\ tech.research_progress < 100 * MILLI
        ELSE tech.research_progress = IF tech.is_researched THEN 100 * MILLI ELSE 0

-----------------------------------------------------------------------------
\* C36: every building type with a positive count on the planet is in
\* get_unlocked_buildings(), and during a game (from one start_new_game to
\* the next) the unlocked set never loses a type.
ThmC36 ==
    [][/\ \A building_type \in DOMAIN Buildings(current_planet') :
             current_planet'.buildings[building_type] > 0
                => /\ building_type \in get_unlocked_buildings(technology_tree')
                   /\ is_building_unlocked(technology_tree', building_type)
       /\ (\A planet_name \in PlanetNames : ~StartNewGame(planet_name))
             => get_unlocked_buildings(technology_tree)
                   \subseteq get_unlocked_buildings(technology_tree')]_vars

\* C36, witness: research labs stand on the planet, built once basic_energy
\* had unlocked them, and a tick has completed climate_control, which has
\* added the heater to the unlocked set
WitC36 ==
    /\ FullTick
    /\ current_planet.buildings = [research_lab |-> 2]
    /\ game_stats.buildings_built = 2
    /\ technology_tree.technologies["climate_control"].is_researched
    /\ technology_tree.technologies["climate_control"].researched_for > 0
    /\ get_unlocked_buildings(technology_tree)
          = {"solar_panel", "research_lab", "dome", "atmosphere_processor", "heater"}

-----------------------------------------------------------------------------
\* C37: a successful start_new_game leaves the fresh initial state whatever
\* game came before: credits 1000, energy 100, science 0, no building, no
\* active event, nothing researched, no current research, the statistics at
\* 0, the simulation running and not paused, and game_time 0; with an unknown
\* planet name it returns False and changes nothing.
CexC37 ==
    [][\A planet_name \in {"Eden", "Pluto"} :
          StartNewGame(planet_name) =>
             IF last_call'.ret = "True"
             THEN /\ resource_manager'.credits = 1000 * CENTI
                  /\ resource_manager'.energy = 100 * CENTI
                  /\ resource_manager'.science = 0
                  /\ current_planet'.name = planet_name
                  /\ DOMAIN current_planet'.buildings = {}
                  /\ current_planet'.active_events = <<>>
                  /\ technology_tree'.researched_technologies = {}
                  /\ technology_tree'.current_research = None
                  /\ game_stats'.buildings_built = 0
                  /\ is_running' /\ ~is_paused'
                  /\ game_time' = 0
             ELSE /\ planet_name \notin PlanetNames
                  /\ UNCHANGED <<current_planet, resource_manager, technology_tree,
                                 event_manager, is_running, is_paused,
                                 simulation_speed, game_time, last_update_time,
                                 game_stats>>]_vars

-----------------------------------------------------------------------------
(* Research without a switch: a technology is started only while none is   *)
(* current, and update_research keeps being called with a positive science *)
(* rate and a positive delta_time.                                         *)

NextSolo ==
    \/ \E tech_id \in TechIds :
          technology_tree.current_research = None /\ StartResearch(tech_id)
    \/ \E seconds \in {5, 10, 15} : UpdateResearch(SustainedRate, seconds * CENTI)

SpecSolo ==
    /\ Init
    /\ [][NextSolo]_vars
    /\ WF_vars(\E seconds \in {5, 10, 15} :
                  UpdateResearch(SustainedRate, seconds * CENTI))

\* C38: while a technology is the current research, the science rate stays
\* positive, updates of positive delta_time continue and the research is not
\* switched, the technology is eventually researched and current_research
\* becomes empty.
CexC38 ==
    \A tech_id \in TechIds :
        (technology_tree.current_research = tech_id)
           ~> (/\ technology_tree.technologies[tech_id].is_researched
               /\ technology_tree.current_research = None)

-----------------------------------------------------------------------------
\* the positions in the active_events of the planet P of the instantaneous
\* events of a template that started at start_time
Instants(P, id, start_time) ==
    {k \in DOMAIN P.active_events :
        /\ P.active_events[k].duration = 0
        /\ P.active_events[k].id = id
        /\ P.active_events[k].start_time = start_time}

\* C39: executed ticks remove every active event: after a tick no timed
\* event whose duration has elapsed is left; an instantaneous event has its
\* one-shot effects applied by the first tick that finds it, so that after a
\* tick every instantaneous event left is applied; and it is gone after the
\* tick that follows, so that those left were unapplied before the tick or
\* were added by it.
CexC39 ==
    [][(/\ UpdateSimulation(SUBSET EventIds)
        /\ is_running /\ ~is_paused /\ current_planet # NoPlanet)
       => \A j \in DOMAIN current_planet'.active_events :
             LET ae == current_planet'.active_events[j] IN
             /\ ae.duration > 0 => now - ae.start_time < ae.duration
             /\ ae.duration = 0 => ae.effects_applied
             /\ ae.duration = 0 =>
                   Cardinality(Instants(current_planet', ae.id, ae.start_time))
                      <= Cardinality({k \in Instants(current_planet, ae.id, ae.start_time) :
                                         ~current_planet.active_events[k].effects_applied})
                         + (IF ae.start_time = now THEN 1 ELSE 0)]_vars

-----------------------------------------------------------------------------
\* the positions in the active_events of the planet P of the events whose
\* energy_cost is above the energy stock of the ledger R
Unaffordable(P, R) ==
    {k \in DOMAIN P.active_events :
        LET effects == EventData[P.active_events[k].id].effects IN
        "energy_cost" \in DOMAIN effects /\ R.energy < effects.energy_cost}

\* C40: the energy_cost of an event is all or nothing and is not retried:
\* when the energy stock is below the cost, the tick that runs the one-shot
\* effects of the event deducts nothing and leaves the event with
\* effects_applied true, and no later tick deducts anything either.
CexC40 ==
    [][(/\ UpdateSimulation({{}, {"power_surge"}})
        /\ is_running /\ ~is_paused /\ current_planet # NoPlanet)
       => /\ (\/ Unaffordable(current_planet, resource_manager) # {}
              \/ Unaffordable(current_planet', resource_manager) # {})
                => resource_manager'.energy >= resource_manager.energy
          /\ \A j \in Unaffordable(current_planet', resource_manager) :
                current_planet'.active_events[j].effects_applied]_vars

====
